---- MODULE Spec2Model ----
(***************************************************************************)
(* Model of the OverlayMaps storefront: the cart store, the shipping       *)
(* estimator and checkout of the static storefront script, the             *)
(* create-checkout API handler and the payment webhook.                    *)
(*                                                                         *)
(* Money is kept in minor units (cents).  A JavaScript value that can be   *)
(* missing is a record with a field t ("undefined", "num", "str", "arr");  *)
(* a number is the fraction n/d so that non-integers can be sent to the    *)
(* API handlers.                                                           *)
(***************************************************************************)
EXTENDS Integers, Sequences, FiniteSets, TLC

VARIABLES
    cart,                   \* the cart: a sequence of lines
    storage,                \* localStorage[CART_KEY]
    cartIsArray,            \* Array.isArray(cart): FALSE when a loaded value that is no array is kept
    added,                  \* history: per variantId, the sum of the quantities added since it was last absent
    country,                \* value of #shippingCountrySelect
    shipReq,                \* shipping-rate requests in flight (at most one)
    ratesList,              \* content of #shippingRatesList
    selectedShippingOption, \* the selected rate id, or Null
    shippingRowShown,       \* #shippingTotalRow is displayed
    calcBtnDisabled,        \* #calcShippingBtn.disabled
    checkoutBtnDisabled,    \* #checkoutBtn.disabled
    checkoutReqs,           \* create-checkout responses the page is still waiting for
    toast,                  \* text of the last toast of the checkout / shipping handlers
    lastCheckout,           \* history: "empty" when the last handleCheckout call returned on an empty cart
    page,                   \* "store" or "stripe" (after the redirect)
    req,                    \* the request a server handler is given
    res,                    \* the response of the server handler
    stripeCalls,            \* number of stripe.checkout.sessions.create calls
    sessions,               \* payment sessions at the payment provider, by id
    events,                 \* webhook events the payment provider has emitted
    orders,                 \* POST /orders requests sent to the fulfillment provider
    confirms,               \* POST /orders/{id}/confirm requests sent
    deliveries,             \* number of webhook deliveries handled so far
    webhookRes,             \* status of the last response of the webhook handler (0: none yet)
    quantity,               \* the quantity selector of the product view
    currentProduct,         \* id of the product the view shows, or 0
    selectedPrimary,        \* the selected primary option label, or Null
    selectedVariant,        \* id of the selected variant, or 0
    addBtnDisabled,         \* #addToCartBtn.disabled
    modalImage,             \* #modalImage.src (currentImage of the React view)
    shipReqBody,            \* the body the shipping-rates handler is given
    shipRes,                \* the response of the shipping-rates handler
    printfulCalls,          \* number of rate requests sent to the fulfillment provider
    upstream,               \* the store at the provider: the records of its products, in listing order
    load                    \* the run of fetchPrintfulCatalog

cartVars     == <<cart, storage, cartIsArray, added>>
shipVars     == <<country, shipReq, ratesList, selectedShippingOption, shippingRowShown,
                  calcBtnDisabled>>
checkoutVars == <<checkoutBtnDisabled, checkoutReqs, toast, lastCheckout, page>>
apiVars      == <<req, res, stripeCalls>>
webhookVars  == <<sessions, events, orders, confirms, deliveries, webhookRes>>
modalVars    == <<quantity, currentProduct, selectedPrimary, selectedVariant, addBtnDisabled,
                  modalImage>>
ratesApiVars == <<shipReqBody, shipRes, printfulCalls>>
catalogVars  == <<upstream, load>>
vars == <<cartVars, shipVars, checkoutVars, apiVars, webhookVars, modalVars, ratesApiVars, catalogVars>>

(***************************************************************************)
(* Program constants and bounds                                            *)
(***************************************************************************)
MaxQty == 20            \* the quantity cap of a cart line
MaxAdded == 23          \* bound of the history variable added
QtyStep == 10           \* the quantity the storefront model adds besides MaxQty
MaxPending == 1         \* bound on create-checkout requests in flight
MaxSessions == 2        \* bound on stripe.checkout.sessions.create calls
MaxDeliveries == 3      \* bound on webhook deliveries
MaxLines == 1           \* bound on the lines the product view adds to the cart

Null == "null"
VariantIds == {501, 502}
RateIds == {"STANDARD", "EXPRESS"}

Min(a, b) == IF a < b THEN a ELSE b

\* the catalog price (cents) of a variant, as the product view passes it
PriceOf(v) == 1000 + (v - 500) * 500

\* the item handleAddToCart builds for the selected variant and quantity
Item(v, q) == [variantId |-> v, quantity |-> q, price |-> PriceOf(v), name |-> "Overlay Tee"]

(***************************************************************************)
(* Cart store                                                              *)
(***************************************************************************)
IndexOf(c, v) ==
    IF \E i \in 1..Len(c) : c[i].variantId = v
    THEN CHOOSE i \in 1..Len(c) : c[i].variantId = v /\ \A j \in 1..(i-1) : c[j].variantId # v
    ELSE 0

\* mutant: a repeated add is not capped
MergeQuantityNoCap(existing, q) == existing + q

MergeQuantity(existing, q) == Min(MaxQty, existing + q)

\* mutant: a repeated add always appends
AddOrIncrementAppend(c, item) == Append(c, item)

AddOrIncrement(c, item) ==
    IF \E i \in 1..Len(c) : c[i].variantId = item.variantId
    THEN [i \in 1..Len(c) |->
            IF c[i].variantId = item.variantId
            THEN [c[i] EXCEPT !.quantity = MergeQuantity(c[i].quantity, item.quantity)]
            ELSE c[i]]
    ELSE Append(c, item)

\* mutant: remove takes one unit off a line that holds more than one
RemoveLineLastUnit(c, v) ==
    [i \in 1..Len(SelectSeq(c, LAMBDA l : l.variantId # v \/ l.quantity > 1)) |->
        LET l == SelectSeq(c, LAMBDA x : x.variantId # v \/ x.quantity > 1)[i] IN
          IF l.variantId = v THEN [l EXCEPT !.quantity = @ - 1] ELSE l]

\* cart.filter(i => i.variantId !== variantId)
RemoveLine(c, v) == SelectSeq(c, LAMBDA l : l.variantId # v)

\* JSON.stringify of a line: the text of an object, its properties in the
\* order handleAddToCart writes them, each a <<key, value>> pair
Encode(line) ==
    <<<<"variantId", line.variantId>>, <<"name", line.name>>, <<"price", line.price>>,
      <<"quantity", line.quantity>>>>

\* the value of property key in the parsed object text t
Value(t, key) == t[CHOOSE i \in 1..Len(t) : t[i][1] = key][2]

\* JSON.parse of the text of a line
Decode(t) ==
    [variantId |-> Value(t, "variantId"), quantity |-> Value(t, "quantity"),
     price |-> Value(t, "price"), name |-> Value(t, "name")]

\* mutant: the text holds every line but the last
StringifyTruncated(c) ==
    [kind |-> "json", text |-> [i \in 1..(Len(c) - 1) |-> Encode(c[i])]]

\* localStorage.setItem(CART_KEY, JSON.stringify(cart)): the stored text
Stringify(c) == [kind |-> "json", text |-> [i \in 1..Len(c) |-> Encode(c[i])]]

\* stored values: no item; a text that is not JSON; JSON that is falsy (null,
\* 0, false, ""); JSON that is truthy and no array (an object, a string)
NoItem == [kind |-> "absent", text |-> <<>>]
Garbage == [kind |-> "garbage", text |-> <<>>]
FalsyJson == [kind |-> "falsy", text |-> <<>>]
ObjectJson == [kind |-> "object", text |-> <<>>]

\* JSON.parse(localStorage.getItem(CART_KEY)) || [] inside try/catch: the
\* lines of the loaded cart when it is an array
LoadCart(s) == IF s.kind = "json" THEN [i \in 1..Len(s.text) |-> Decode(s.text[i])] ELSE <<>>

\* whether the loaded value is an array: a truthy parsed value is returned as it is
LoadIsArray(s) == s.kind # "object"

(***************************************************************************)
(* Initial values of the variable groups                                   *)
(***************************************************************************)
NoRates == [kind |-> "empty", rates |-> <<>>]
NoReq == [method |-> "none", items |-> [t |-> "undefined"], shippingOption |-> Null]
NoRes == [status |-> 0, error |-> "", url |-> FALSE]
SessionIds == 1..MaxSessions
NoSession == [state |-> "none", payment_status |-> "unpaid", address |-> FALSE, cart |-> <<>>]

CartInit ==
    /\ cart = <<>>
    /\ storage = NoItem
    /\ cartIsArray = TRUE
    /\ added = [v \in VariantIds |-> 0]

ShipInit ==
    /\ country = ""
    /\ shipReq = <<>>
    /\ ratesList = NoRates
    /\ selectedShippingOption = Null
    /\ shippingRowShown = FALSE
    /\ calcBtnDisabled = FALSE

CheckoutInit ==
    /\ checkoutBtnDisabled = FALSE
    /\ checkoutReqs = <<>>
    /\ toast = ""
    /\ lastCheckout = "none"
    /\ page = "store"

ApiInit == req = NoReq /\ res = NoRes /\ stripeCalls = 0

WebhookInit ==
    /\ sessions = [id \in SessionIds |-> NoSession]
    /\ events = {}
    /\ orders = <<>>
    /\ confirms = <<>>
    /\ deliveries = 0
    /\ webhookRes = 0

\* the product view as the markup and the module state have it
ModalInit ==
    /\ quantity = 1
    /\ currentProduct = 0
    /\ selectedPrimary = Null
    /\ selectedVariant = 0
    /\ addBtnDisabled = TRUE
    /\ modalImage = ""

NoBody == [method |-> "none", country_code |-> [t |-> "undefined"], items |-> [t |-> "undefined"]]
NoRatesRes == [status |-> 0, error |-> "", rates |-> <<>>]

RatesApiInit ==
    /\ shipReqBody = NoBody
    /\ shipRes = NoRatesRes
    /\ printfulCalls = [lookups |-> 0, rates |-> 0]

\* fetchPrintfulCatalog has not been called
NoLoad ==
    [phase |-> "idle", allProducts |-> <<>>, offset |-> 0, requests |-> <<>>,
     results |-> <<>>, products |-> <<>>]

CatalogInit ==
    /\ upstream = <<>>
    /\ load = NoLoad

(***************************************************************************)
(* The cart context provider (CartProvider): addToCart, removeFromCart,    *)
(* clearCart and the load on mount                                         *)
(***************************************************************************)
CtxAddToCart(item) ==
    /\ cartIsArray
    /\ added[item.variantId] + item.quantity <= MaxAdded
    /\ cart' = AddOrIncrement(cart, item)
    /\ storage' = Stringify(cart')
    /\ added' = [added EXCEPT ![item.variantId] = @ + item.quantity]
    /\ UNCHANGED cartIsArray
    /\ UNCHANGED <<shipVars, checkoutVars, apiVars, webhookVars, modalVars, ratesApiVars, catalogVars>>

CtxRemoveFromCart(variantId) ==
    /\ cartIsArray
    /\ cart' = RemoveLine(cart, variantId)
    /\ storage' = Stringify(cart')
    /\ added' = [added EXCEPT ![variantId] = 0]
    /\ UNCHANGED cartIsArray
    /\ UNCHANGED <<shipVars, checkoutVars, apiVars, webhookVars, modalVars, ratesApiVars, catalogVars>>

CtxClearCart ==
    /\ cart' = <<>>
    /\ storage' = NoItem
    /\ cartIsArray' = TRUE
    /\ added' = [v \in VariantIds |-> 0]
    /\ UNCHANGED <<shipVars, checkoutVars, apiVars, webhookVars, modalVars, ratesApiVars, catalogVars>>

\* a page load: the provider mounts with [] and its effect loads the stored cart
CtxMount ==
    /\ cart' = LoadCart(storage)
    /\ cartIsArray' = LoadIsArray(storage)
    /\ UNCHANGED <<storage, added, shipVars, checkoutVars, apiVars, webhookVars, modalVars,
                   ratesApiVars, catalogVars>>

InitCart ==
    /\ CartInit /\ ShipInit /\ CheckoutInit /\ ApiInit /\ WebhookInit
    /\ ModalInit /\ RatesApiInit /\ CatalogInit

NextCart ==
    \/ \E v \in VariantIds, q \in 1..MaxQty : CtxAddToCart(Item(v, q))
    \/ \E v \in VariantIds : CtxRemoveFromCart(v)
    \/ CtxClearCart
    \/ CtxMount

SpecCart == InitCart /\ [][NextCart]_vars

(***************************************************************************)
(* Claims on the cart store                                                *)
(***************************************************************************)
LinesFor(c, v) == {i \in 1..Len(c) : c[i].variantId = v}

\* C1: in every state reachable from the empty cart by addToCart,
\* removeFromCart and clearCart, the cart holds at most one line per
\* variantId.
C1_OneLinePerVariant ==
    \A i, j \in 1..Len(cart) : i # j => cart[i].variantId # cart[j].variantId

\* C1 witness: two lines, one of them the result of repeated adds
C1_Witness ==
    /\ Len(cart) = 2
    /\ \E v \in VariantIds : added[v] > MaxQty

\* added[v] is q1+...+qn of the adds on v since it was last absent: the
\* cart has no line for v when it is 0, else one line of quantity min(20, sum)
C2_Quantity ==
    \A v \in VariantIds :
        IF added[v] = 0
        THEN LinesFor(cart, v) = {}
        ELSE /\ Cardinality(LinesFor(cart, v)) = 1
             /\ cart[IndexOf(cart, v)].quantity = Min(MaxQty, added[v])

\* an add on a present variantId changes the quantity of its line only; an
\* add on an absent one appends the line at the end
C2_Step ==
    \A v \in VariantIds :
        added'[v] > added[v] =>
            IF IndexOf(cart, v) = 0
            THEN /\ Len(cart') = Len(cart) + 1
                 /\ SubSeq(cart', 1, Len(cart)) = cart
                 /\ cart'[Len(cart')].variantId = v
            ELSE /\ Len(cart') = Len(cart)
                 /\ \A i \in 1..Len(cart) :
                        IF i = IndexOf(cart, v)
                        THEN cart'[i] = [cart[i] EXCEPT !.quantity = cart'[i].quantity]
                        ELSE cart'[i] = cart[i]

\* C2: after adds of q1..qn on one variantId, starting without it, the cart
\* has exactly one line for it with quantity min(20, q1+...+qn); an add on an
\* existing line keeps the line where it is and leaves the other lines alone,
\* an add on an absent variantId appends the line at the end.
C2_MergeOrAppend == []C2_Quantity /\ [][C2_Step]_vars

\* C2 witness: scenario B, a line whose adds sum to 22 and that holds 20
C2_Witness ==
    /\ added[501] = 22
    /\ IndexOf(cart, 501) # 0
    /\ cart[IndexOf(cart, 501)].quantity = MaxQty
    /\ Len(cart) = 2

(***************************************************************************)
(* The storefront page: cart, shipping estimator and checkout              *)
(***************************************************************************)
Countries == {"", "NL"}
RateLists == {<<>>, <<"STANDARD">>, <<"STANDARD", "EXPRESS">>, <<"EXPRESS", "STANDARD">>}
QtyInputs == {QtyStep, MaxQty}

Loading == [kind |-> "loading", rates |-> <<>>]
ShippingError == [kind |-> "error", rates |-> <<>>]
ShownRates(rates) == [kind |-> "rates", rates |-> rates]

CountryFirstMsg == "Please select a country first"
ShippingRequiredMsg == "Please calculate and select a shipping option first"
CheckoutErrorMsg == "Error: checkout failed"

\* the items calcShipping sends: cart.map(i => ({variantId, catalogVariantId, quantity}))
ReqItems(c) == [i \in 1..Len(c) |-> [variantId |-> c[i].variantId, quantity |-> c[i].quantity]]

\* updateShippingDisplay: the row is shown iff an option is selected and the cart has lines
ShippingRowAfterUpdate(sel, c) == sel # Null /\ Len(c) > 0

\* updateShippingDisplay: checkoutBtn.disabled = !selectedShippingOption || cart.length === 0
CheckoutDisabledAfterUpdate(sel, c) == sel = Null \/ Len(c) = 0

\* renderCart: returns early on an empty cart, else runs updateShippingDisplay
\* and then sets checkoutBtn.disabled = !selectedShippingOption
CheckoutDisabledAfterRender(sel, c, before) == IF Len(c) = 0 THEN before ELSE sel = Null

ShippingRowAfterRender(sel, c, before) ==
    IF Len(c) = 0 THEN before ELSE ShippingRowAfterUpdate(sel, c)

\* resetShipping: selectedShippingOption = null
ResetSelection(sel) == Null

\* resetShipping: ratesList.innerHTML = ''
ResetRatesList(list) == NoRates

\* saveCart(); resetShipping(); renderCart(); updateCartCount() for the new cart c
AfterMutation(c) ==
    /\ cart' = c
    /\ storage' = Stringify(c)
    /\ selectedShippingOption' = ResetSelection(selectedShippingOption)
    /\ ratesList' = ResetRatesList(ratesList)
    /\ shippingRowShown' =
          ShippingRowAfterRender(selectedShippingOption', c,
              ShippingRowAfterUpdate(selectedShippingOption', c))
    /\ checkoutBtnDisabled' =
          CheckoutDisabledAfterRender(selectedShippingOption', c,
              CheckoutDisabledAfterUpdate(selectedShippingOption', c))
    /\ UNCHANGED <<added, cartIsArray, country, shipReq, calcBtnDisabled, checkoutReqs,
                   lastCheckout, page, apiVars, webhookVars, ratesApiVars, catalogVars>>

AddToCart(item) ==
    /\ page = "store"
    /\ cartIsArray
    /\ AfterMutation(AddOrIncrement(cart, item))
    /\ UNCHANGED <<toast, modalVars>>

RemoveFromCart(variantId) ==
    /\ page = "store"
    /\ cartIsArray
    /\ AfterMutation(RemoveLine(cart, variantId))
    /\ UNCHANGED <<toast, modalVars>>

SelectCountry(c) ==
    /\ page = "store"
    /\ country' = c
    /\ UNCHANGED <<cartVars, shipReq, ratesList, selectedShippingOption, shippingRowShown,
                   calcBtnDisabled, checkoutVars, apiVars, webhookVars, modalVars, ratesApiVars, catalogVars>>

\* calcShipping up to its await: a click on the enabled calculate button
CalcShipping ==
    /\ page = "store"
    /\ ~calcBtnDisabled
    /\ IF Len(cart) = 0
       THEN UNCHANGED <<shipVars, toast>>
       ELSE IF country = ""
       THEN /\ toast' = CountryFirstMsg
            /\ UNCHANGED shipVars
       ELSE /\ calcBtnDisabled' = TRUE
            /\ ratesList' = Loading
            /\ shipReq' = Append(shipReq, [country_code |-> country, items |-> ReqItems(cart)])
            /\ UNCHANGED <<country, selectedShippingOption, shippingRowShown, toast>>
    /\ UNCHANGED <<cartVars, checkoutBtnDisabled, checkoutReqs, lastCheckout, page, apiVars,
                   webhookVars, modalVars, ratesApiVars, catalogVars>>

\* mutant: the calculate button is enabled again only after a list of rates
ShipContinueNoFinally(outcome) ==
    /\ page = "store"
    /\ shipReq # <<>>
    /\ shipReq' = Tail(shipReq)
    /\ IF outcome.kind # "rates" \/ Len(outcome.rates) = 0
       THEN /\ ratesList' = ShippingError
            /\ UNCHANGED <<selectedShippingOption, shippingRowShown, checkoutBtnDisabled,
                           calcBtnDisabled>>
       ELSE /\ ratesList' = ShownRates(outcome.rates)
            /\ calcBtnDisabled' = FALSE
            /\ selectedShippingOption' = outcome.rates[1]
            /\ shippingRowShown' = ShippingRowAfterUpdate(selectedShippingOption', cart)
            /\ checkoutBtnDisabled' = CheckoutDisabledAfterUpdate(selectedShippingOption', cart)
    /\ UNCHANGED <<cartVars, country, checkoutReqs, toast, lastCheckout, page, apiVars,
                   webhookVars, modalVars, catalogVars>>

\* calcShipping after its await: the response {rates, error} or a failed
\* fetch.  The continuation does not look at the cart the request was made for.
ShipContinue(outcome) ==
    /\ page = "store"
    /\ shipReq # <<>>
    /\ shipReq' = Tail(shipReq)
    /\ calcBtnDisabled' = FALSE
    /\ IF outcome.kind # "rates" \/ Len(outcome.rates) = 0
       THEN /\ ratesList' = ShippingError
            /\ UNCHANGED <<selectedShippingOption, shippingRowShown, checkoutBtnDisabled>>
       ELSE /\ ratesList' = ShownRates(outcome.rates)
            /\ selectedShippingOption' = outcome.rates[1]
            /\ shippingRowShown' = ShippingRowAfterUpdate(selectedShippingOption', cart)
            /\ checkoutBtnDisabled' = CheckoutDisabledAfterUpdate(selectedShippingOption', cart)
    /\ UNCHANGED <<cartVars, country, checkoutReqs, toast, lastCheckout, page, apiVars,
                   webhookVars, modalVars, catalogVars>>

\* the response comes from a server that is not modelled
ShipResolve(outcome) == ShipContinue(outcome) /\ UNCHANGED <<ratesApiVars, catalogVars>>

ShipOutcomes ==
    {[kind |-> "rates", rates |-> r] : r \in RateLists}
        \cup {[kind |-> "error", rates |-> <<>>], [kind |-> "throw", rates |-> <<>>]}

\* the change listener of a displayed rate radio: it runs when another radio
\* than the checked one is chosen
SelectRate(r) ==
    /\ page = "store"
    /\ ratesList.kind = "rates"
    /\ \E i \in 1..Len(ratesList.rates) : ratesList.rates[i] = r
    /\ r # selectedShippingOption
    /\ selectedShippingOption' = r
    /\ shippingRowShown' = ShippingRowAfterUpdate(r, cart)
    /\ checkoutBtnDisabled' = CheckoutDisabledAfterUpdate(r, cart)
    /\ UNCHANGED <<cartVars, country, shipReq, ratesList, calcBtnDisabled, checkoutReqs,
                   toast, lastCheckout, page, apiVars, webhookVars, modalVars, ratesApiVars, catalogVars>>

(***************************************************************************)
(* JavaScript values of a request body                                     *)
(***************************************************************************)
Undef == [t |-> "undefined"]
Num(n, d) == [t |-> "num", n |-> n, d |-> d]
Str(x) == [t |-> "str", s |-> x]
Arr(a) == [t |-> "arr", a |-> a]

\* !!x
Truthy(x) ==
    CASE x.t = "undefined" -> FALSE
      [] x.t = "num" -> x.n # 0
      [] x.t = "str" -> x.s # ""
      [] OTHER -> TRUE

\* x < k and x > k for a number x = n/d (d > 0) and an integer k
JsLess(x, k) == x.t = "num" /\ x.n < k * x.d
JsGreater(x, k) == x.t = "num" /\ x.n > k * x.d

IsInteger(x) == x.t = "num" /\ x.n % x.d = 0

\* JSON of a cart line, as handleCheckout posts it
ToJs(line) ==
    [variantId |-> Num(line.variantId, 1), quantity |-> Num(line.quantity, 1),
     name |-> Str(line.name), price |-> Num(line.price, 1)]

ToJsItems(c) == Arr([i \in 1..Len(c) |-> ToJs(c[i])])

(***************************************************************************)
(* POST /api/create-checkout                                               *)
(***************************************************************************)
CartEmptyError == "Cart is empty"
StructureError == "Invalid cart item structure"
QuantityError == "Invalid quantity"
StripeError == "Failed to create checkout session"

\* !items || !Array.isArray(items) || items.length === 0
ItemsEmpty(items) == ~Truthy(items) \/ items.t # "arr" \/ Len(items.a) = 0

\* !item.variantId || !item.quantity || !item.name || !item.price
StructureBad(item) ==
    ~Truthy(item.variantId) \/ ~Truthy(item.quantity) \/ ~Truthy(item.name) \/ ~Truthy(item.price)

\* item.quantity < 1 || item.quantity > 20
QuantityBad(item) == JsLess(item.quantity, 1) \/ JsGreater(item.quantity, MaxQty)

\* the for loop over the items: the error of the first item that fails, or ""
ItemsError(a) ==
    IF \E i \in 1..Len(a) : StructureBad(a[i]) \/ QuantityBad(a[i])
    THEN LET i == CHOOSE k \in 1..Len(a) :
                     /\ StructureBad(a[k]) \/ QuantityBad(a[k])
                     /\ \A j \in 1..(k-1) : ~(StructureBad(a[j]) \/ QuantityBad(a[j]))
         IN  IF StructureBad(a[i]) THEN StructureError ELSE QuantityError
    ELSE ""

\* mutant: the handler does not check for an empty item list
ValidationErrorNoEmptyCheck(r) ==
    IF r.items.t # "arr" THEN CartEmptyError ELSE ItemsError(r.items.a)

\* the validation of a POST body: the error message, or "" when the body passes
ValidationError(r) ==
    IF ItemsEmpty(r.items) THEN CartEmptyError ELSE ItemsError(r.items.a)

\* mutant: the metadata carries the whole line
MetadataWholeLine(a) == a

\* cartMetadata.cart: items.map(i => ({variantId, quantity}))
Metadata(a) == [i \in 1..Len(a) |-> [variantId |-> a[i].variantId, quantity |-> a[i].quantity]]

StripeOutcomes == {"url", "nourl", "throws"}

\* the handler on request r when stripe.checkout.sessions.create ends with
\* outcome o: the response, whether stripe was called, and the metadata sent
CreateCheckout(r, o) ==
    IF r.method = "OPTIONS"
    THEN [status |-> 200, error |-> "", url |-> FALSE, called |-> FALSE]
    ELSE IF r.method # "POST"
    THEN [status |-> 405, error |-> "Method not allowed", url |-> FALSE, called |-> FALSE]
    ELSE IF ValidationError(r) # ""
    THEN [status |-> 400, error |-> ValidationError(r), url |-> FALSE, called |-> FALSE]
    ELSE IF o = "throws"
    THEN [status |-> 500, error |-> StripeError, url |-> FALSE, called |-> TRUE]
    ELSE [status |-> 200, error |-> "", url |-> (o = "url"), called |-> TRUE]

Response(h) == [status |-> h.status, error |-> h.error, url |-> h.url]

\* the session stripe creates for request r
NewSession(r) ==
    [state |-> "open", payment_status |-> "unpaid", address |-> FALSE,
     cart |-> Metadata(r.items.a)]

\* the handler runs on the request req
ApiCreateCheckout(o) ==
    /\ req.method # "none"
    /\ res = NoRes
    /\ stripeCalls < MaxSessions
    /\ LET h == CreateCheckout(req, o) IN
        /\ res' = Response(h)
        /\ stripeCalls' = IF h.called THEN stripeCalls + 1 ELSE stripeCalls
        /\ sessions' = IF h.called /\ h.status = 200
                       THEN [sessions EXCEPT ![stripeCalls + 1] = NewSession(req)]
                       ELSE sessions
    /\ UNCHANGED <<req, cartVars, shipVars, checkoutVars, modalVars, ratesApiVars, catalogVars, events,
                   orders, confirms, deliveries, webhookRes>>

(***************************************************************************)
(* handleCheckout of the storefront page                                   *)
(***************************************************************************)
NetworkError == [status |-> 0, error |-> "network", url |-> FALSE]

\* if (cart.length === 0) return;
CartIsEmpty(c) == Len(c) = 0

\* if (!selectedShippingOption) { showToast(...); return; }
ShippingMissing(sel) == sel = Null

\* mutant: the catch block empties the cart
CartAfterCheckoutFailureCleared(c) == <<>>

\* the catch block of handleCheckout leaves the cart alone
CartAfterCheckoutFailure(c) == c

\* the body handleCheckout posts
CheckoutBody(c, sel) == [method |-> "POST", items |-> ToJsItems(c), shippingOption |-> sel]

\* handleCheckout up to its first await: a click on the enabled checkout
\* button.  The handler of the endpoint runs on the posted body in the same
\* step (its result depends on the body alone); the response stays in flight.
HandleCheckout ==
    /\ page = "store"
    /\ ~checkoutBtnDisabled
    /\ \/ /\ CartIsEmpty(cart)
          /\ lastCheckout' = "empty"
          /\ UNCHANGED <<checkoutBtnDisabled, checkoutReqs, toast, stripeCalls>>
       \/ /\ ~CartIsEmpty(cart)
          /\ ShippingMissing(selectedShippingOption)
          /\ toast' = ShippingRequiredMsg
          /\ lastCheckout' = "none"
          /\ UNCHANGED <<checkoutBtnDisabled, checkoutReqs, stripeCalls>>
       \/ /\ ~CartIsEmpty(cart)
          /\ ~ShippingMissing(selectedShippingOption)
          /\ Len(checkoutReqs) < MaxPending
          /\ stripeCalls < MaxSessions
          /\ checkoutBtnDisabled' = TRUE
          /\ lastCheckout' = "none"
          /\ \/ /\ checkoutReqs' = Append(checkoutReqs, NetworkError)
                /\ UNCHANGED stripeCalls
             \/ \E o \in StripeOutcomes :
                  LET h == CreateCheckout(CheckoutBody(cart, selectedShippingOption), o) IN
                    /\ checkoutReqs' = Append(checkoutReqs, Response(h))
                    /\ stripeCalls' = IF h.called THEN stripeCalls + 1 ELSE stripeCalls
          /\ UNCHANGED toast
    /\ UNCHANGED <<cartVars, shipVars, page, req, res, webhookVars, modalVars, ratesApiVars, catalogVars>>

RemoveAt(q, i) == SubSeq(q, 1, i - 1) \o SubSeq(q, i + 1, Len(q))

\* handleCheckout after its await, on the i-th response in flight;
\* redirected tells whether stripe.redirectToCheckout leaves the page
CheckoutResolve(i, redirected) ==
    /\ page = "store"
    /\ i \in 1..Len(checkoutReqs)
    /\ LET r == checkoutReqs[i] IN
        IF r.status = 200 /\ (r.url \/ redirected)
        THEN /\ page' = "stripe"
             /\ checkoutReqs' = <<>>
             /\ shipReq' = <<>>
             /\ UNCHANGED <<cart, toast, checkoutBtnDisabled>>
        ELSE /\ toast' = CheckoutErrorMsg
             /\ checkoutBtnDisabled' = FALSE
             /\ checkoutReqs' = RemoveAt(checkoutReqs, i)
             /\ cart' = CartAfterCheckoutFailure(cart)
             /\ UNCHANGED <<page, shipReq>>
    /\ UNCHANGED <<storage, added, cartIsArray, country, ratesList, selectedShippingOption,
                   shippingRowShown, calcBtnDisabled, lastCheckout, apiVars, webhookVars, modalVars, ratesApiVars, catalogVars>>

\* a page load (also the return from the payment page): cart = loadCart(),
\* the markup's defaults, and initCartUI's renderCart
Reload ==
    /\ cart' = LoadCart(storage)
    /\ cartIsArray' = LoadIsArray(storage)
    /\ page' = "store"
    /\ country' = ""
    /\ shipReq' = <<>>
    /\ ratesList' = NoRates
    /\ selectedShippingOption' = Null
    /\ calcBtnDisabled' = FALSE
    /\ shippingRowShown' = ShippingRowAfterRender(Null, cart', FALSE)
    /\ checkoutBtnDisabled' = CheckoutDisabledAfterRender(Null, cart', FALSE)
    /\ checkoutReqs' = <<>>
    /\ toast' = ""
    /\ lastCheckout' = "none"
    /\ UNCHANGED <<storage, added, apiVars, webhookVars, modalVars, ratesApiVars, catalogVars>>

Init ==
    /\ CartInit /\ ShipInit /\ CheckoutInit /\ ApiInit /\ WebhookInit
    /\ ModalInit /\ RatesApiInit /\ CatalogInit

Next ==
    \/ \E v \in VariantIds, q \in QtyInputs : AddToCart(Item(v, q))
    \/ \E v \in VariantIds : RemoveFromCart(v)
    \/ \E c \in Countries : SelectCountry(c)
    \/ CalcShipping
    \/ \E o \in ShipOutcomes : ShipResolve(o)
    \/ \E r \in RateIds : SelectRate(r)
    \/ HandleCheckout
    \/ \E i \in 1..MaxPending, b \in BOOLEAN : CheckoutResolve(i, b)
    \/ Reload

Spec == Init /\ [][Next]_vars

(***************************************************************************)
(* The create-checkout endpoint on arbitrary request bodies                *)
(***************************************************************************)
ApiQuantities == {Undef, Num(0, 1), Num(1, 2), Num(1, 1), Num(3, 2), Num(20, 1), Num(21, 1)}
ApiPrices == {Undef, Num(0, 1), Num(1500, 1), Num(-500, 1)}
ApiLines ==
    [variantId : {Undef, Num(501, 1)}, quantity : ApiQuantities,
     name : {Undef, Str("Overlay Tee")}, price : ApiPrices]
ApiItems ==
    {Undef, Str("items")} \cup {Arr(<<>>)} \cup {Arr(<<a>>) : a \in ApiLines}
        \cup {Arr(<<a, b>>) : a \in ApiLines, b \in ApiLines}
ApiRequests ==
    [method : {"POST", "GET", "OPTIONS"}, items : ApiItems, shippingOption : {Null, "STANDARD"}]

\* The page holds an empty cart: as loaded, or with an option selected by a
\* rate response that arrived after the last line was removed.
InitApi ==
    /\ CartInit /\ CheckoutInit /\ WebhookInit /\ ModalInit /\ RatesApiInit /\ CatalogInit
    /\ country = "" /\ shipReq = <<>> /\ shippingRowShown = FALSE /\ calcBtnDisabled = FALSE
    /\ \/ selectedShippingOption = Null /\ ratesList = NoRates
       \/ selectedShippingOption = "STANDARD" /\ ratesList = ShownRates(<<"STANDARD">>)
    /\ req \in ApiRequests
    /\ res = NoRes
    /\ stripeCalls = 0

NextApi ==
    \/ \E o \in StripeOutcomes : ApiCreateCheckout(o)
    \/ HandleCheckout

SpecApi == InitApi /\ [][NextApi]_vars

(***************************************************************************)
(* POST /api/webhook and the payment provider that calls it                *)
(***************************************************************************)
Completed == "checkout.session.completed"
AsyncSucceeded == "checkout.session.async_payment_succeeded"
AsyncFailed == "checkout.session.async_payment_failed"
EventTypes == {Completed, AsyncSucceeded, AsyncFailed}

Event(type, id) == [type |-> type, id |-> id]

\* a client posts a checkout body to the create-checkout endpoint
PostCheckout(r) ==
    /\ stripeCalls < MaxSessions
    /\ res # NoRes \/ req = NoReq
    /\ req' = r
    /\ res' = NoRes
    /\ UNCHANGED <<stripeCalls, cartVars, shipVars, checkoutVars, webhookVars, modalVars,
                   ratesApiVars, catalogVars>>

\* the shopper completes the hosted checkout page of session id: the address
\* is collected (shipping_address_collection); a card payment is paid at
\* once, a delayed payment method leaves the session unpaid
StripeComplete(id, delayed) ==
    /\ sessions[id].state = "open"
    /\ sessions' = [sessions EXCEPT ![id].state = "complete",
                                    ![id].address = TRUE,
                                    ![id].payment_status =
                                        IF delayed THEN "unpaid" ELSE "paid"]
    /\ events' = events \cup {Event(Completed, id)}
    /\ UNCHANGED <<orders, confirms, deliveries, webhookRes, cartVars, shipVars, checkoutVars,
                   modalVars, ratesApiVars, catalogVars, apiVars>>

AsyncPending(id) ==
    /\ sessions[id].state = "complete"
    /\ sessions[id].payment_status = "unpaid"
    /\ Event(AsyncFailed, id) \notin events

\* a delayed payment goes through
StripeAsyncSucceeded(id) ==
    /\ AsyncPending(id)
    /\ sessions' = [sessions EXCEPT ![id].payment_status = "paid"]
    /\ events' = events \cup {Event(AsyncSucceeded, id)}
    /\ UNCHANGED <<orders, confirms, deliveries, webhookRes, cartVars, shipVars, checkoutVars,
                   modalVars, ratesApiVars, catalogVars, apiVars>>

\* a delayed payment fails
StripeAsyncFailed(id) ==
    /\ AsyncPending(id)
    /\ events' = events \cup {Event(AsyncFailed, id)}
    /\ UNCHANGED <<sessions, orders, confirms, deliveries, webhookRes, cartVars, shipVars,
                   checkoutVars, modalVars, ratesApiVars, catalogVars,
                   apiVars>>

\* createPrintfulOrder reaches its POST /orders: the session has a shipping
\* address (its metadata is the JSON.stringify of create-checkout, which
\* JSON.parse accepts)
Submits(session) == session.address

\* mutant: the completed branch does not look at payment_status
CallsCreateOrderAnyStatus(type, session) == type \in {Completed, AsyncSucceeded}

\* the branches of handler that call createPrintfulOrder
CallsCreateOrder(type, session) ==
    \/ type = Completed /\ session.payment_status = "paid"
    \/ type = AsyncSucceeded

\* cartItems.map((item) => ({sync_variant_id: item.variantId, quantity: item.quantity}))
OrderItems(cartItems) ==
    [i \in 1..Len(cartItems) |->
        [sync_variant_id |-> cartItems[i].variantId, quantity |-> cartItems[i].quantity]]

\* mutant: the order is made of the first line of the cart
OrderFirstLine(id, session, ok) ==
    [external_id |-> id, items |-> OrderItems(SubSeq(session.cart, 1, 1)), accepted |-> ok]

\* the order createPrintfulOrder posts, and whether the provider took it
Order(id, session, ok) ==
    [external_id |-> id, items |-> OrderItems(session.cart), accepted |-> ok]

\* mutant: the handler answers 500 when the order could not be created
WebhookStatusFailing(method, sigValid, failed) ==
    IF method # "POST" THEN 405 ELSE IF ~sigValid THEN 400 ELSE IF failed THEN 500 ELSE 200

\* the status the handler answers with; failed tells whether createPrintfulOrder
\* was called and threw (the handler catches it)
WebhookStatus(method, sigValid, failed) ==
    IF method # "POST" THEN 405 ELSE IF ~sigValid THEN 400 ELSE 200

\* one delivery to the handler: the request method, the event in the body,
\* whether constructEvent verifies the signature, and whether the fulfillment
\* provider answers the order with response.ok.  A verified event is one the
\* payment provider emitted.
Webhook(method, e, sigValid, ok) ==
    /\ deliveries < MaxDeliveries
    /\ deliveries' = deliveries + 1
    /\ sigValid => e \in events
    /\ IF method = "POST" /\ sigValid /\ CallsCreateOrder(e.type, sessions[e.id])
             /\ Submits(sessions[e.id])
       THEN /\ orders' = Append(orders, Order(e.id, sessions[e.id], ok))
            /\ confirms' = IF ok THEN Append(confirms, Len(orders) + 1) ELSE confirms
       ELSE UNCHANGED <<orders, confirms>>
    /\ webhookRes' = WebhookStatus(method, sigValid,
                         /\ method = "POST" /\ sigValid
                         /\ CallsCreateOrder(e.type, sessions[e.id])
                         /\ ~(Submits(sessions[e.id]) /\ ok))
    /\ UNCHANGED <<sessions, events, cartVars, shipVars, checkoutVars, modalVars, ratesApiVars, catalogVars,
                   apiVars>>

WebhookRequests == {CheckoutBody(<<Item(502, 2), Item(501, 1)>>, "STANDARD")}

NextWebhook ==
    \/ \E r \in WebhookRequests : PostCheckout(r)
    \/ \E o \in StripeOutcomes : ApiCreateCheckout(o)
    \/ \E id \in SessionIds, delayed \in BOOLEAN : StripeComplete(id, delayed)
    \/ \E id \in SessionIds : StripeAsyncSucceeded(id)
    \/ \E id \in SessionIds : StripeAsyncFailed(id)
    \/ \E m \in {"POST", "GET"}, t \in EventTypes, id \in SessionIds, v, ok \in BOOLEAN :
          Webhook(m, Event(t, id), v, ok)

SpecWebhook == Init /\ [][NextWebhook]_vars

(***************************************************************************)
(* The product view of the storefront page                                 *)
(***************************************************************************)
\* an entry of product.images; variantId 0 is null
Image(variantId, url) == [variantId |-> variantId, url |-> url]

Variant(id, primary, secondary, available) ==
    [id |-> id, primary |-> primary, secondary |-> secondary, available |-> available]

\* the catalog in allProducts: a product with two primary-only options, the
\* second of them discontinued; a product with one primary option and two
\* colours, one of them discontinued; a product with a single variant that
\* has a colour; a product with two primary options of one colour each.
\* The first has a thumbnail and an image of its first variant; the second
\* has no thumbnail and an image of its second variant; the third has neither;
\* the fourth has a thumbnail only.
Catalog ==
    <<[id |-> 1, variants |-> <<Variant(501, "A3", Null, TRUE), Variant(502, "A4", Null, FALSE)>>,
       thumbnail |-> "t1", images |-> <<Image(0, "t1"), Image(501, "u501")>>],
      [id |-> 2, variants |-> <<Variant(503, "M", "Black", TRUE),
                                Variant(504, "M", "White", FALSE)>>,
       thumbnail |-> "", images |-> <<Image(504, "u504")>>],
      [id |-> 3, variants |-> <<Variant(505, "L", "Red", TRUE)>>,
       thumbnail |-> "", images |-> <<>>],
      [id |-> 4, variants |-> <<Variant(506, "S", "Red", TRUE), Variant(507, "XL", "Red", TRUE)>>,
       thumbnail |-> "t4", images |-> <<Image(0, "t4")>>]>>

ProductIds == {Catalog[i].id : i \in 1..Len(Catalog)}
Product(pid) == Catalog[CHOOSE i \in 1..Len(Catalog) : Catalog[i].id = pid]
CatalogVariantIds ==
    UNION {{Catalog[i].variants[j].id : j \in 1..Len(Catalog[i].variants)} :
              i \in 1..Len(Catalog)}

\* product.variantGroups[key]
Group(p, key) == SelectSeq(p.variants, LAMBDA v : v.primary = key)

\* Object.keys(product.variantGroups) for labels that are not integers
RECURSIVE Keys(_)
Keys(vs) ==
    IF vs = <<>> THEN <<>>
    ELSE LET rest == Keys(SubSeq(vs, 1, Len(vs) - 1))
             k == vs[Len(vs)].primary
         IN  IF \E i \in 1..Len(rest) : rest[i] = k THEN rest ELSE Append(rest, k)

GroupKeys(p) == Keys(p.variants)

\* variants.some(v => v.options.secondary)
HasSecondary(group) == \E i \in 1..Len(group) : group[i].secondary # Null

\* mutant: the first variant of the group is selected whatever its options
SelectedAfterPrimaryFirst(p, key) == Group(p, key)[1].id

\* renderSecondaryVariants: the buttons of #secondaryOptions it renders, none
\* when the section is hidden
SecondaryOptions(p, key) == IF HasSecondary(Group(p, key)) THEN Group(p, key) ELSE <<>>

\* mutant: a group with secondary options leaves the selection as it was
SelectedAfterPrimaryStale(p, key) ==
    IF HasSecondary(Group(p, key)) THEN selectedVariant ELSE Group(p, key)[1].id

\* renderSecondaryVariants: the selected variant it leaves
SelectedAfterPrimary(p, key) ==
    IF HasSecondary(Group(p, key)) THEN 0 ELSE Group(p, key)[1].id

\* updateAddBtn
AddBtnDisabledFor(variant) == variant = 0

\* the variant of product p with this id
VariantIn(p, vid) == p.variants[CHOOSE i \in 1..Len(p.variants) : p.variants[i].id = vid]

\* the first entry of a non-empty selection of images
FirstUrl(images) == images[1].url

\* mutant: without the fallback to the images of the group
ResolveImageExactOnly(p, vid) ==
    IF vid = 0 THEN p.thumbnail
    ELSE LET exact == SelectSeq(p.images, LAMBDA i : i.variantId = vid) IN
         IF Len(exact) > 0 THEN FirstUrl(exact) ELSE p.thumbnail

\* updateModalImage(variant) and resolveImage(variant, p) for the variant
\* with id vid of product p (0: no variant); no product has an entry in
\* THUMBNAIL_OVERRIDES, and "" is the empty src
ResolveImage(p, vid) ==
    IF vid = 0 THEN p.thumbnail
    ELSE LET exact == SelectSeq(p.images, LAMBDA i : i.variantId = vid)
             sameGroup == {p.variants[j].id :
                              j \in {k \in 1..Len(p.variants) :
                                        p.variants[k].primary = VariantIn(p, vid).primary}}
             groupMatch == SelectSeq(p.images, LAMBDA i : i.variantId \in sameGroup)
         IN  IF Len(exact) > 0 THEN FirstUrl(exact)
             ELSE IF Len(groupMatch) > 0 /\ FirstUrl(groupMatch) # "" THEN FirstUrl(groupMatch)
             ELSE p.thumbnail

\* openModal(productId), renderVariants included
OpenModal(pid) ==
    /\ page = "store"
    /\ currentProduct = 0
    /\ currentProduct' = pid
    /\ quantity' = 1
    /\ LET p == Product(pid)
           keys == GroupKeys(p) IN
         IF Len(keys) = 0
         THEN /\ selectedPrimary' = Null
              /\ IF Len(p.variants) = 1
                 THEN /\ selectedVariant' = p.variants[1].id
                      /\ modalImage' = ResolveImage(p, selectedVariant')
                      /\ addBtnDisabled' = AddBtnDisabledFor(selectedVariant')
                 ELSE /\ selectedVariant' = 0
                      /\ modalImage' = p.thumbnail
                      /\ UNCHANGED addBtnDisabled
         ELSE IF Len(keys) = 1
         THEN /\ selectedPrimary' = keys[1]
              /\ selectedVariant' = SelectedAfterPrimary(p, keys[1])
              /\ modalImage' = ResolveImage(p, Group(p, keys[1])[1].id)
              /\ addBtnDisabled' = AddBtnDisabledFor(selectedVariant')
         ELSE /\ selectedPrimary' = Null
              /\ selectedVariant' = 0
              /\ modalImage' = p.thumbnail
              /\ UNCHANGED addBtnDisabled
    /\ UNCHANGED <<cartVars, shipVars, checkoutVars, apiVars, webhookVars, ratesApiVars, catalogVars>>

CloseModal ==
    /\ page = "store"
    /\ currentProduct # 0
    /\ currentProduct' = 0
    /\ UNCHANGED <<quantity, selectedPrimary, selectedVariant, addBtnDisabled, modalImage,
                   cartVars, shipVars, checkoutVars, apiVars, webhookVars, ratesApiVars,
                   catalogVars>>

\* the click listener of a primary option button
PrimaryClick(key) ==
    /\ page = "store"
    /\ currentProduct # 0
    /\ \E i \in 1..Len(GroupKeys(Product(currentProduct))) :
          GroupKeys(Product(currentProduct))[i] = key
    /\ selectedPrimary' = key
    /\ selectedVariant' = SelectedAfterPrimary(Product(currentProduct), key)
    /\ modalImage' = ResolveImage(Product(currentProduct), Group(Product(currentProduct), key)[1].id)
    /\ addBtnDisabled' = AddBtnDisabledFor(selectedVariant')
    /\ UNCHANGED <<quantity, currentProduct, cartVars, shipVars, checkoutVars, apiVars,
                   webhookVars, ratesApiVars, catalogVars>>

\* the click listener of a secondary option button: the buttons of the
\* selected group are shown when a variant of it has a secondary option, and
\* only the buttons of available variants have a listener
SecondaryClick(vid) ==
    /\ page = "store"
    /\ currentProduct # 0
    /\ selectedPrimary # Null
    /\ LET group == Group(Product(currentProduct), selectedPrimary) IN
          /\ HasSecondary(group)
          /\ \E i \in 1..Len(group) : group[i].id = vid /\ group[i].available
    /\ selectedVariant' = vid
    /\ modalImage' = ResolveImage(Product(currentProduct), vid)
    /\ addBtnDisabled' = AddBtnDisabledFor(vid)
    /\ UNCHANGED <<quantity, currentProduct, selectedPrimary, cartVars, shipVars,
                   checkoutVars, apiVars, webhookVars, ratesApiVars, catalogVars>>

\* mutant: setQty stores the requested value
ClampNone(n) == n

\* Math.max(1, Math.min(20, n))
Clamp(n) == IF Min(MaxQty, n) > 1 THEN Min(MaxQty, n) ELSE 1

\* setQty(n), updateAddBtn included; the buttons call it with quantity - 1
\* and quantity + 1
SetQty(n) ==
    /\ page = "store"
    /\ currentProduct # 0
    /\ quantity' = Clamp(n)
    /\ addBtnDisabled' = AddBtnDisabledFor(selectedVariant)
    /\ UNCHANGED <<currentProduct, selectedPrimary, selectedVariant, modalImage, cartVars,
                   shipVars, checkoutVars, apiVars, webhookVars, ratesApiVars, catalogVars>>

AddedMsg == "Added to cart!"

\* handleAddToCart: a click on the enabled add-to-cart button
HandleAddToCart ==
    /\ page = "store"
    /\ currentProduct # 0
    /\ ~addBtnDisabled
    /\ IF selectedVariant = 0
       THEN UNCHANGED vars
       ELSE /\ cartIsArray
            /\ Len(cart) < MaxLines \/ IndexOf(cart, selectedVariant) # 0
            /\ AfterMutation(AddOrIncrement(cart, Item(selectedVariant, quantity)))
            /\ currentProduct' = 0
            /\ toast' = AddedMsg
            /\ UNCHANGED <<quantity, selectedPrimary, selectedVariant, addBtnDisabled,
                           modalImage>>

\* the products whose view the quantity model opens
QtyProductIds == {1, 2}

NextModal ==
    \/ \E pid \in QtyProductIds : OpenModal(pid)
    \/ CloseModal
    \/ \E key \in {"A3", "A4", "M", "L"} : PrimaryClick(key)
    \/ \E vid \in CatalogVariantIds : SecondaryClick(vid)
    \/ \E d \in {-1, 1} : SetQty(quantity + d)
    \/ HandleAddToCart
    \/ \E vid \in CatalogVariantIds : RemoveFromCart(vid)

SpecModal == Init /\ [][NextModal]_vars

\* the product view on every product of the catalog, at quantity 1
NextView ==
    \/ \E pid \in ProductIds : OpenModal(pid)
    \/ CloseModal
    \/ \E key \in {"A3", "A4", "M", "L", "S", "XL"} : PrimaryClick(key)
    \/ \E vid \in CatalogVariantIds : SecondaryClick(vid)
    \/ HandleAddToCart
    \/ \E vid \in CatalogVariantIds : RemoveFromCart(vid)

SpecView == Init /\ [][NextView]_vars

(***************************************************************************)
(* The page loaded over an arbitrary stored value                          *)
(***************************************************************************)
StoredValues ==
    {NoItem, Garbage, FalsyJson, ObjectJson, Stringify(<<Item(501, QtyStep)>>)}

\* the state after the script has run: let cart = loadCart() and initCartUI
InitLoad ==
    /\ storage \in StoredValues
    /\ cart = LoadCart(storage)
    /\ cartIsArray = LoadIsArray(storage)
    /\ added = [v \in VariantIds |-> 0]
    /\ ShipInit
    /\ checkoutBtnDisabled = CheckoutDisabledAfterRender(Null, cart, FALSE)
    /\ checkoutReqs = <<>> /\ toast = "" /\ lastCheckout = "none" /\ page = "store"
    /\ ApiInit /\ WebhookInit /\ ModalInit /\ RatesApiInit /\ CatalogInit

NextLoad ==
    \/ \E v \in VariantIds, q \in QtyInputs : AddToCart(Item(v, q))
    \/ \E v \in VariantIds : RemoveFromCart(v)
    \/ \E c \in Countries : SelectCountry(c)
    \/ CalcShipping
    \/ \E o \in ShipOutcomes : ShipResolve(o)
    \/ \E r \in RateIds : SelectRate(r)
    \/ Reload

SpecLoad == InitLoad /\ [][NextLoad]_vars

(***************************************************************************)
(* POST /api/shipping-rates                                                *)
(***************************************************************************)
CountryRequired == "country_code is required"
ItemsRequired == "items array is required"
UnresolvedError == "Could not resolve one or more product variants"
ProviderError == "Shipping calculation failed"
RatesFailed == "Failed to calculate shipping rates"

\* mutant: the country code is only tested for truthiness
RequestErrorNoTypeCheck(b) ==
    IF ~Truthy(b.country_code) THEN CountryRequired
    ELSE IF b.items.t # "arr" \/ Len(b.items.a) = 0 THEN ItemsRequired
    ELSE ""

\* the validation of the body: the error message, or "" when the body passes
RequestError(b) ==
    IF ~Truthy(b.country_code) \/ b.country_code.t # "str" THEN CountryRequired
    ELSE IF b.items.t # "arr" \/ Len(b.items.a) = 0 THEN ItemsRequired
    ELSE ""

\* the lines that have no catalogVariantId: one store-variant lookup each
NeedLookup(a) == {i \in 1..Len(a) : ~Truthy(a[i].catalogVariantId)}

\* resolvedItems: the variant_id of every line (0 for null), when no lookup
\* throws; lookup maps a store variant id to "id", "none" or "throws"
CatalogIdOf(v) == v + 9000
Resolved(a, lookup) ==
    [i \in 1..Len(a) |->
        IF Truthy(a[i].catalogVariantId) THEN a[i].catalogVariantId.n
        ELSE IF lookup[a[i].variantId.n] = "id" THEN CatalogIdOf(a[i].variantId.n)
        ELSE 0]

LookupThrows(a, lookup) == \E i \in NeedLookup(a) : lookup[a[i].variantId.n] = "throws"

\* mutant: lines that could not be resolved are passed on
AnyUnresolvedNever(resolved) == FALSE

\* resolvedItems.some(i => !i.variant_id)
AnyUnresolved(resolved) == \E i \in 1..Len(resolved) : resolved[i] = 0

\* mutant: an empty rate list is answered as an error
RatesAnswerEmptyIsError(result) ==
    IF Len(result) = 0
    THEN [status |-> 422, error |-> ProviderError, rates |-> <<>>]
    ELSE [status |-> 200, error |-> "", rates |-> result]

\* the answer to a provider response that is ok: the rates in the order of
\* data.result (a missing result is the empty list)
RatesAnswer(result) == [status |-> 200, error |-> "", rates |-> result]

\* provider outcomes: ok with a result, not ok, a failed fetch
ProviderOk(result) == [kind |-> "ok", result |-> result]
ProviderOutcomes ==
    {ProviderOk(r) : r \in RateLists}
        \cup {[kind |-> "notok", result |-> <<>>], [kind |-> "throws", result |-> <<>>]}

Lookups == [VariantIds -> {"id", "none", "throws"}]

\* the handler on body b: the response, and the numbers of lookups and of
\* rate requests it sent to the fulfillment provider
ShippingRates(b, lookup, pf) ==
    IF b.method = "OPTIONS"
    THEN [status |-> 200, error |-> "", rates |-> <<>>, lookups |-> 0, rateCalls |-> 0]
    ELSE IF b.method # "POST"
    THEN [status |-> 405, error |-> "Method not allowed", rates |-> <<>>, lookups |-> 0,
          rateCalls |-> 0]
    ELSE IF RequestError(b) # ""
    THEN [status |-> 400, error |-> RequestError(b), rates |-> <<>>, lookups |-> 0,
          rateCalls |-> 0]
    ELSE LET a == b.items.a
             n == Cardinality(NeedLookup(a)) IN
         IF LookupThrows(a, lookup)
         THEN [status |-> 500, error |-> RatesFailed, rates |-> <<>>, lookups |-> n,
               rateCalls |-> 0]
         ELSE IF AnyUnresolved(Resolved(a, lookup))
         THEN [status |-> 422, error |-> UnresolvedError, rates |-> <<>>, lookups |-> n,
               rateCalls |-> 0]
         ELSE IF pf.kind = "throws"
         THEN [status |-> 500, error |-> RatesFailed, rates |-> <<>>, lookups |-> n,
               rateCalls |-> 1]
         ELSE IF pf.kind = "notok"
         THEN [status |-> 422, error |-> ProviderError, rates |-> <<>>, lookups |-> n,
               rateCalls |-> 1]
         ELSE [status |-> RatesAnswer(pf.result).status, error |-> RatesAnswer(pf.result).error,
               rates |-> RatesAnswer(pf.result).rates, lookups |-> n, rateCalls |-> 1]

RatesResponse(h) == [status |-> h.status, error |-> h.error, rates |-> h.rates]

NoCalls == [lookups |-> 0, rates |-> 0]
CallsAfter(calls, h) ==
    [lookups |-> calls.lookups + h.lookups, rates |-> calls.rates + h.rateCalls]

\* the handler runs on the body shipReqBody
ApiShippingRates(lookup, pf) ==
    /\ shipReqBody.method # "none"
    /\ shipRes = NoRatesRes
    /\ LET h == ShippingRates(shipReqBody, lookup, pf) IN
          /\ shipRes' = RatesResponse(h)
          /\ printfulCalls' = CallsAfter(printfulCalls, h)
    /\ UNCHANGED <<shipReqBody, cartVars, shipVars, checkoutVars, apiVars, webhookVars,
                   modalVars, catalogVars>>

RateLines ==
    [variantId : {Num(v, 1) : v \in VariantIds}, catalogVariantId : {Undef, Num(9001, 1)},
     quantity : {Num(1, 1)}]
RatesItems ==
    {Undef, Str("items"), Arr(<<>>)} \cup {Arr(<<a>>) : a \in RateLines}
        \cup {Arr(<<a, b>>) : a \in RateLines, b \in RateLines}
RatesRequests ==
    [method : {"POST", "GET", "OPTIONS"},
     country_code : {Undef, Str(""), Str("NL"), Num(31, 1)},
     items : RatesItems]

InitRates ==
    /\ CartInit /\ ShipInit /\ CheckoutInit /\ ApiInit /\ WebhookInit /\ ModalInit
    /\ CatalogInit
    /\ shipReqBody \in RatesRequests
    /\ shipRes = NoRatesRes
    /\ printfulCalls = NoCalls

NextRates == \E lookup \in Lookups, pf \in ProviderOutcomes : ApiShippingRates(lookup, pf)

SpecRates == InitRates /\ [][NextRates]_vars

(***************************************************************************)
(* Claims on shipping invalidation                                         *)
(***************************************************************************)
CartMutation ==
    \/ \E v \in VariantIds, q \in QtyInputs : AddToCart(Item(v, q))
    \/ \E v \in VariantIds : RemoveFromCart(v)

ShippingCleared ==
    /\ selectedShippingOption = Null
    /\ ratesList = NoRates
    /\ ~shippingRowShown

\* no option is selected, no rate is displayed and the row is hidden
NoRatesShown ==
    /\ selectedShippingOption = Null
    /\ ratesList.kind # "rates"
    /\ ~shippingRowShown

\* C3: right after every cart mutation the selected shipping option is null
\* and the rate list and the shipping-total row are cleared, and they stay
\* so until a new estimate is requested: no step from a cleared display
\* selects an option or displays rates (a request step displays "loading").
C3_ClearedUntilNewEstimate ==
    [][/\ CartMutation => ShippingCleared'
       /\ ShippingCleared => NoRatesShown']_vars

\* C4: the response of a shipping-rate request whose items no longer match
\* the cart is ignored: it neither selects an option nor displays rates.
C4_StaleResponseIgnored ==
    [][((\E o \in ShipOutcomes : ShipResolve(o)) /\ Head(shipReq).items # ReqItems(cart))
          => (selectedShippingOption' = selectedShippingOption /\ ratesList'.kind # "rates")]_vars

(***************************************************************************)
(* Claims on checkout                                                      *)
(***************************************************************************)
ApiStep == \E o \in StripeOutcomes : ApiCreateCheckout(o)

\* an empty or missing item list
NoItems(items) == items.t = "undefined" \/ (items.t = "arr" /\ Len(items.a) = 0)

\* C7: create-checkout on an empty or missing item list answers with the
\* empty-cart error and does not call the payment provider; handleCheckout on
\* an empty cart issues no create-checkout request.
C7_EmptyCartNoRequest ==
    [][/\ (ApiStep /\ req.method = "POST" /\ NoItems(req.items)) =>
              /\ res'.status = 400
              /\ res'.error = CartEmptyError
              /\ stripeCalls' = stripeCalls
              /\ sessions' = sessions
       /\ (HandleCheckout /\ Len(cart) = 0) =>
              /\ checkoutReqs' = checkoutReqs
              /\ stripeCalls' = stripeCalls]_vars

\* C7 witness: the handler has answered an empty item list and handleCheckout
\* has run on an empty cart while a shipping option was selected
C7_Witness ==
    /\ req.method = "POST"
    /\ req.items = Arr(<<>>)
    /\ res.error = CartEmptyError
    /\ lastCheckout = "empty"
    /\ selectedShippingOption # Null

\* a line with a positive integer quantity <= 20 and a positive price
LineValid(l) ==
    /\ IsInteger(l.quantity) /\ l.quantity.n >= l.quantity.d /\ l.quantity.n <= MaxQty * l.quantity.d
    /\ l.price.t = "num" /\ l.price.n > 0

\* C8: create-checkout rejects with the invalid-line error, before any call
\* of the payment provider, every request with a line whose quantity is not
\* a positive integer <= 20 or whose price is not positive.
C8_InvalidLineRejected ==
    [][(/\ ApiStep
        /\ req.method = "POST"
        /\ req.items.t = "arr"
        /\ \E i \in 1..Len(req.items.a) : ~LineValid(req.items.a[i])) =>
            /\ res'.status = 400
            /\ res'.error \in {StructureError, QuantityError}
            /\ stripeCalls' = stripeCalls]_vars

\* C9: a checkout attempted with no shipping option selected fails with the
\* shipping-required error and creates no payment session: handleCheckout
\* over a cart with lines shows the message and sends no request, and the
\* endpoint answers a body without a shipping option with an error, without
\* calling the payment provider.
C9_ShippingRequired ==
    [][/\ (HandleCheckout /\ Len(cart) > 0 /\ selectedShippingOption = Null) =>
              /\ toast' = ShippingRequiredMsg
              /\ checkoutReqs' = checkoutReqs
              /\ stripeCalls' = stripeCalls
       /\ (ApiStep /\ req.method = "POST" /\ req.shippingOption = Null) =>
              /\ res'.status = 400
              /\ stripeCalls' = stripeCalls
              /\ sessions' = sessions]_vars

\* C10: a checkout attempt that ends on the page (a validation return, a
\* failed response, a failed fetch) leaves the cart and the stored cart as
\* they were.
C10_FailureKeepsCart ==
    [][((HandleCheckout \/ \E i \in 1..MaxPending, b \in BOOLEAN : CheckoutResolve(i, b))
          /\ page' = "store")
          => (cart' = cart /\ storage' = storage)]_vars

\* C10 witness: the error toast of a failed attempt over a cart with lines
C10_Witness ==
    /\ toast = CheckoutErrorMsg
    /\ Len(cart) > 0
    /\ storage = Stringify(cart)
    /\ ~checkoutBtnDisabled

(***************************************************************************)
(* Claims on the webhook                                                   *)
(***************************************************************************)
OrdersFor(id) == {i \in 1..Len(orders) : orders[i].external_id = id}

\* C5: for every payment session, over any sequence of verified deliveries
\* (duplicates of one event, the completed and the async_payment_succeeded
\* event in either order), at most one fulfillment order is submitted.
C5_AtMostOneOrderPerSession == \A id \in SessionIds : Cardinality(OrdersFor(id)) <= 1

WebhookStep(types, verified) ==
    \E m \in {"POST", "GET"}, t \in types, id \in SessionIds, ok \in BOOLEAN :
        Webhook(m, Event(t, id), verified, ok)

\* C6: an order is submitted only by the handling of a verified completed or
\* async_payment_succeeded event of a session whose payment_status is paid.
\* The creation of a checkout session, a completed event of an unpaid
\* session, an async_payment_failed event and an event whose signature fails
\* submit no order.
C6_OrderOnlyOnConfirmedPayment ==
    [][/\ orders' # orders =>
              \E t \in {Completed, AsyncSucceeded}, id \in SessionIds, ok \in BOOLEAN :
                  /\ Webhook("POST", Event(t, id), TRUE, ok)
                  /\ Event(t, id) \in events
                  /\ sessions[id].payment_status = "paid"
                  /\ orders' = Append(orders, Order(id, sessions[id], ok))
       /\ (\E o \in StripeOutcomes : ApiCreateCheckout(o)) => orders' = orders
       /\ WebhookStep(EventTypes, FALSE) => orders' = orders
       /\ WebhookStep({AsyncFailed}, TRUE) => orders' = orders
       /\ (\E m \in {"POST", "GET"}, id \in SessionIds, ok \in BOOLEAN :
               /\ Webhook(m, Event(Completed, id), TRUE, ok)
               /\ sessions[id].payment_status # "paid") => orders' = orders]_vars

\* C6 witness: every delivery was made, one session is paid and has its
\* order, and another session, completed with a delayed payment that failed,
\* has none
C6_Witness ==
    /\ deliveries = MaxDeliveries
    /\ \E id, other \in SessionIds :
          /\ sessions[id].payment_status = "paid"
          /\ Cardinality(OrdersFor(id)) = 1
          /\ Event(Completed, other) \in events
          /\ Event(AsyncFailed, other) \in events
          /\ OrdersFor(other) = {}
          /\ Len(orders) = 1

(***************************************************************************)
(* Claims on the session metadata                                          *)
(***************************************************************************)
\* C11: the metadata of a created session holds, for each line of the
\* request in order, exactly its variantId and its quantity, and no price,
\* name or other field of the line.
C11_MetadataMinimal ==
    [][(ApiStep /\ sessions' # sessions) =>
          LET m == sessions'[stripeCalls'].cart IN
            /\ sessions'[stripeCalls'].state = "open"
            /\ Len(m) = Len(req.items.a)
            /\ \A i \in 1..Len(m) :
                  /\ DOMAIN m[i] = {"variantId", "quantity"}
                  /\ m[i].variantId = req.items.a[i].variantId
                  /\ m[i].quantity = req.items.a[i].quantity]_vars

\* C11 witness: a session created for two lines of different quantities
C11_Witness ==
    /\ sessions[1].state = "open"
    /\ Len(sessions[1].cart) = 2
    /\ sessions[1].cart[1].quantity = Num(20, 1)
    /\ sessions[1].cart[2].quantity = Num(1, 1)
    /\ req.items.a[1].price = Num(1500, 1)

(***************************************************************************)
(* Claims on the acknowledgement of webhook events                         *)
(***************************************************************************)
\* C20: when the creation of the order fails during the handling of a
\* verified event of a paid session, the handler still answers 200, and the
\* session stays paid.
C20_FailureAcknowledged ==
    [][(\E t \in {Completed, AsyncSucceeded}, id \in SessionIds :
            /\ Webhook("POST", Event(t, id), TRUE, FALSE)
            /\ sessions[id].payment_status = "paid") =>
          /\ webhookRes' = 200
          /\ sessions' = sessions]_vars

\* C20 witness: the last order was refused by the fulfillment provider, none
\* was confirmed, and the handler answered 200
C20_Witness ==
    /\ orders # <<>>
    /\ ~orders[Len(orders)].accepted
    /\ confirms = <<>>
    /\ webhookRes = 200
    /\ deliveries = 1

(***************************************************************************)
(* Claims on quantities                                                    *)
(***************************************************************************)
QuantitiesInRange ==
    /\ quantity \in 1..MaxQty
    /\ \A i \in 1..Len(cart) : cart[i].quantity \in 1..MaxQty

\* a setQty step stores the requested value when it lies in 1..20, 1 when it
\* is smaller and 20 when it is larger
SetQtyClamps ==
    \A d \in {-1, 1} :
        SetQty(quantity + d) =>
            quantity' = IF quantity + d < 1 THEN 1
                        ELSE IF quantity + d > MaxQty THEN MaxQty
                        ELSE quantity + d

\* C12: in every reachable state the quantity selector and the quantity of
\* every cart line are integers in 1..20; setQty clamps the requested value
\* into that range and a merge does not raise a line above 20.
C12_QuantitiesClamped == []QuantitiesInRange /\ [][SetQtyClamps]_vars

\* C12 witness: the selector is at 20 and the view is about to add 20 more to
\* a line that holds 20
C12_Witness ==
    /\ quantity = MaxQty
    /\ ~addBtnDisabled
    /\ currentProduct # 0
    /\ selectedVariant # 0
    /\ IndexOf(cart, selectedVariant) # 0
    /\ cart[IndexOf(cart, selectedVariant)].quantity = MaxQty

RoundTrip ==
    /\ LoadIsArray(storage)
    /\ Len(LoadCart(storage)) = Len(cart)
    /\ \A i \in 1..Len(cart) :
          /\ LoadCart(storage)[i].variantId = cart[i].variantId
          /\ LoadCart(storage)[i].quantity = cart[i].quantity
          /\ LoadCart(storage)[i].price = cart[i].price
          /\ LoadCart(storage)[i].name = cart[i].name

\* clearCart removes the stored item
ClearErases == CtxClearCart => (storage' = NoItem /\ LoadCart(storage') = <<>>)

C15_LoadNeverFails ==
    /\ cartIsArray
    /\ storage.kind # "json" => cart = <<>>
    /\ ENABLED (\E v \in VariantIds, q \in QtyInputs : AddToCart(Item(v, q)))

(***************************************************************************)
(* Claims on the shipping-rates handler                                    *)
(***************************************************************************)
RatesStep == \E lookup \in Lookups, pf \in ProviderOutcomes : ApiShippingRates(lookup, pf)

\* the country code is missing, empty or no string, or the item list is
\* missing or empty
BadRatesRequest(b) ==
    \/ b.country_code.t # "str"
    \/ b.country_code = Str("")
    \/ b.items.t = "undefined"
    \/ (b.items.t = "arr" /\ Len(b.items.a) = 0)

\* C16: a POST whose country code is missing, empty or not a string, or
\* whose item list is missing or empty, is answered with the invalid-request
\* error (status 400) and no request is sent to the fulfillment provider.
C16_InvalidRequestRejected ==
    [][(RatesStep /\ shipReqBody.method = "POST" /\ BadRatesRequest(shipReqBody)) =>
          /\ shipRes'.status = 400
          /\ shipRes'.error \in {CountryRequired, ItemsRequired}
          /\ shipRes'.rates = <<>>
          /\ printfulCalls' = printfulCalls]_vars

\* C16 witness: a body with a number as country code and two lines was
\* answered 400, with no request sent
C16_Witness ==
    /\ shipReqBody.method = "POST"
    /\ shipReqBody.country_code = Num(31, 1)
    /\ shipReqBody.items.t = "arr"
    /\ Len(shipReqBody.items.a) = 2
    /\ shipRes.status = 400
    /\ printfulCalls = NoCalls

MaxLookups == 2         \* bound on the store-variant lookups of the served storefront

\* JSON.stringify({country_code, items}) as the handler's req.body; the cart
\* lines of the script carry catalogVariantId: null
RatesBody(r) ==
    [method |-> "POST",
     country_code |-> Str(r.country_code),
     items |-> Arr([i \in 1..Len(r.items) |->
                      [variantId |-> Num(r.items[i].variantId, 1),
                       catalogVariantId |-> Undef,
                       quantity |-> Num(r.items[i].quantity, 1)]])]

\* const { rates, error } = await res.json(); if (error || !rates?.length)
OutcomeOf(h) ==
    IF h.error # "" THEN [kind |-> "error", rates |-> <<>>]
    ELSE [kind |-> "rates", rates |-> h.rates]

\* the handler answers the oldest pending estimate and calcShipping continues
ShipServe(lookup, pf) ==
    /\ shipReq # <<>>
    /\ printfulCalls.lookups < MaxLookups
    /\ LET b == RatesBody(Head(shipReq))
           h == ShippingRates(b, lookup, pf) IN
          /\ shipReqBody' = b
          /\ shipRes' = RatesResponse(h)
          /\ printfulCalls' = CallsAfter(printfulCalls, h)
          /\ ShipContinue(OutcomeOf(h))

\* the fetch of the oldest pending estimate rejects (the network fails)
ShipLost == ShipResolve([kind |-> "throw", rates |-> <<>>])

InitEstimate == Init

NextEstimate ==
    \/ AddToCart(Item(501, QtyStep))
    \/ RemoveFromCart(501)
    \/ \E c \in Countries : SelectCountry(c)
    \/ CalcShipping
    \/ \E lookup \in Lookups, pf \in ProviderOutcomes : ShipServe(lookup, pf)
    \/ ShipLost
    \/ \E r \in RateIds : SelectRate(r)

SpecEstimate == InitEstimate /\ [][NextEstimate]_vars

(***************************************************************************)
(* Claims on the served estimate                                           *)
(***************************************************************************)
ServeStep == \E lookup \in Lookups, pf \in ProviderOutcomes : ShipServe(lookup, pf)

IsMember(r, list) == \E i \in 1..Len(list) : list[i] = r

\* the handler sent its rate request and answered 200
AnsweredOk == printfulCalls'.rates = printfulCalls.rates + 1 /\ shipRes'.status = 200

\* C18: when the provider answers ok with an empty rate list, the handler
\* answers 200 with an empty list of rates and no error, and calcShipping
\* leaves the selection as it was: a selection that was absent stays absent
\* and no option is displayed.
C18_EmptyResultIsSuccess ==
    [][\A lookup \in Lookups :
          (/\ ShipServe(lookup, ProviderOk(<<>>))
           /\ printfulCalls'.rates = printfulCalls.rates + 1) =>
              /\ shipRes' = [status |-> 200, error |-> "", rates |-> <<>>]
              /\ selectedShippingOption' = selectedShippingOption
              /\ (selectedShippingOption = Null => selectedShippingOption' = Null)
              /\ ratesList'.kind # "rates"]_vars

\* C18 witness: an estimate was answered 200 with no rates after a rate
\* request, and nothing is selected
C18_Witness ==
    /\ shipRes = [status |-> 200, error |-> "", rates |-> <<>>]
    /\ printfulCalls.rates = 1
    /\ shipReqBody.method = "POST"
    /\ selectedShippingOption = Null
    /\ ratesList = ShippingError
    /\ ~calcBtnDisabled

\* C19: after an estimate answered with a non-empty list the selected option
\* is the first of the list and the list is displayed in the returned order;
\* and after every estimate answered ok, as after every change of the
\* selection, a selected option is a member of the list returned last.
C19_SelectionFromLatestRates ==
    [][/\ (ServeStep /\ AnsweredOk /\ Len(shipRes'.rates) > 0) =>
              /\ selectedShippingOption' = shipRes'.rates[1]
              /\ ratesList' = ShownRates(shipRes'.rates)
       /\ (ServeStep /\ AnsweredOk /\ selectedShippingOption' # Null) =>
              IsMember(selectedShippingOption', shipRes'.rates)
       /\ ((\E r \in RateIds : SelectRate(r)) /\ shipRes.status = 200) =>
              IsMember(selectedShippingOption', shipRes.rates)]_vars

(***************************************************************************)
(* lib/printful.js: strings                                                *)
(* A string is the sequence of its characters.                             *)
(***************************************************************************)
WhiteSpace == {" "}

\* the characters of /^[\s\-\/]+/
LeadingJunk == {" ", "-", "/"}

RECURSIVE DropWhile(_, _)
DropWhile(s, set) ==
    IF Len(s) > 0 /\ Head(s) \in set THEN DropWhile(Tail(s), set) ELSE s

RECURSIVE TrimEnd(_)
TrimEnd(s) ==
    IF Len(s) > 0 /\ s[Len(s)] \in WhiteSpace THEN TrimEnd(SubSeq(s, 1, Len(s) - 1)) ELSE s

\* s.trim()
Trim(s) == TrimEnd(DropWhile(s, WhiteSpace))

MatchAt(s, p, i) == i + Len(p) - 1 <= Len(s) /\ SubSeq(s, i, i + Len(p) - 1) = p

\* s.indexOf(p) + 1, 0 when p does not occur
FirstMatch(s, p) ==
    IF \E i \in 1..(Len(s) + 1) : MatchAt(s, p, i)
    THEN CHOOSE i \in 1..(Len(s) + 1) :
            MatchAt(s, p, i) /\ \A j \in 1..(i - 1) : ~MatchAt(s, p, j)
    ELSE 0

\* s.replace(p, '') for a string p: the first occurrence of p is removed
RemoveFirst(s, p) ==
    LET i == FirstMatch(s, p) IN
    IF i = 0 THEN s ELSE SubSeq(s, 1, i - 1) \o SubSeq(s, i + Len(p), Len(s))

\* s.split(sep) for a non-empty sep
RECURSIVE Split(_, _)
Split(s, sep) ==
    LET i == FirstMatch(s, sep) IN
    IF i = 0 THEN <<s>>
    ELSE <<SubSeq(s, 1, i - 1)>> \o Split(SubSeq(s, i + Len(sep), Len(s)), sep)

Separator == <<" ", "/", " ">>

JsNull == [t |-> "null"]
Text(cs) == [t |-> "text", cs |-> cs]

\* parseVariantName(variantName, productName)
ParseVariantName(variantName, productName) ==
    LET stripped == Trim(DropWhile(RemoveFirst(variantName, productName), LeadingJunk))
        optionStr == IF Len(stripped) = 0 THEN variantName ELSE stripped
        pieces == Split(optionStr, Separator)
        parts == SelectSeq([i \in 1..Len(pieces) |-> Trim(pieces[i])], LAMBDA x : Len(x) > 0)
    IN  IF Len(parts) >= 2 THEN [primary |-> parts[1], secondary |-> Text(parts[2])]
        ELSE IF Len(parts) = 1 THEN [primary |-> parts[1], secondary |-> JsNull]
        ELSE [primary |-> optionStr, secondary |-> JsNull]

(***************************************************************************)
(* lib/printful.js: groupVariants and the keys of its result               *)
(***************************************************************************)
\* property names every object inherits from Object.prototype (two of them):
\* groups[key] is then a function, which is truthy and has no push
InheritedNames ==
    {<<"v", "a", "l", "u", "e", "O", "f">>,
     <<"c", "o", "n", "s", "t", "r", "u", "c", "t", "o", "r">>}

\* groupVariants throws a TypeError
GroupVariantsThrows(variants) ==
    \E i \in 1..Len(variants) : variants[i].options.primary \in InheritedNames

\* mutant: only the variant that creates a group is stored in it
RECURSIVE GroupVariantsFirstOnly(_)
GroupVariantsFirstOnly(variants) ==
    IF Len(variants) = 0 THEN <<>>
    ELSE LET groups == GroupVariantsFirstOnly(SubSeq(variants, 1, Len(variants) - 1))
             v == variants[Len(variants)]
         IN  IF \E i \in 1..Len(groups) : groups[i].key = v.options.primary
             THEN groups
             ELSE Append(groups, [key |-> v.options.primary, variants |-> <<v>>])

\* groupVariants(variants): the properties of groups in the order in which
\* they were created, each with its array
RECURSIVE GroupVariants(_)
GroupVariants(variants) ==
    IF Len(variants) = 0 THEN <<>>
    ELSE LET groups == GroupVariants(SubSeq(variants, 1, Len(variants) - 1))
             v == variants[Len(variants)]
             key == v.options.primary
         IN  IF \E i \in 1..Len(groups) : groups[i].key = key
             THEN [i \in 1..Len(groups) |->
                     IF groups[i].key = key
                     THEN [key |-> key, variants |-> Append(groups[i].variants, v)]
                     ELSE groups[i]]
             ELSE Append(groups, [key |-> key, variants |-> <<v>>])

Digits == {"0", "1", "2", "3", "4", "5", "6", "7", "8", "9"}
DigitValue(c) ==
    CASE c = "0" -> 0 [] c = "1" -> 1 [] c = "2" -> 2 [] c = "3" -> 3 [] c = "4" -> 4
      [] c = "5" -> 5 [] c = "6" -> 6 [] c = "7" -> 7 [] c = "8" -> 8 [] c = "9" -> 9

RECURSIVE Decimal(_)
Decimal(s) == IF Len(s) = 0 THEN 0 ELSE 10 * Decimal(SubSeq(s, 1, Len(s) - 1)) + DigitValue(s[Len(s)])

\* a property name that is an array index: a canonical decimal below
\* 2^32 - 1; names of ten digits are left out, those of up to nine are all below
IsIndexKey(key) ==
    /\ Len(key) \in 1..9
    /\ \A i \in 1..Len(key) : key[i] \in Digits
    /\ (Len(key) = 1 \/ key[1] # "0")

\* the sequence of the elements of a finite set of numbers, ascending
RECURSIVE Ascending(_)
Ascending(S) ==
    IF S = {} THEN <<>>
    ELSE LET m == CHOOSE x \in S : \A y \in S : x <= y IN <<m>> \o Ascending(S \ {m})

\* Object.keys(groups): index keys in ascending numeric order, then the other
\* keys in the order of their creation
ObjectKeys(groups) ==
    LET created == [i \in 1..Len(groups) |-> groups[i].key]
        indexValues == Ascending({Decimal(created[i]) : i \in {j \in 1..Len(groups) : IsIndexKey(created[j])}})
        indexKeys == [i \in 1..Len(indexValues) |->
                        created[CHOOSE j \in 1..Len(created) :
                                   IsIndexKey(created[j]) /\ Decimal(created[j]) = indexValues[i]]]
    IN  indexKeys \o SelectSeq(created, LAMBDA k : ~IsIndexKey(k))

\* groups[key], <<>> for a key that is no property
GroupAt(groups, key) ==
    IF \E i \in 1..Len(groups) : groups[i].key = key
    THEN groups[CHOOSE i \in 1..Len(groups) : groups[i].key = key].variants
    ELSE <<>>

(***************************************************************************)
(* lib/printful.js: transformProduct                                       *)
(***************************************************************************)
\* parseFloat of the price strings of the model, in cents
ParseFloat(x) == CASE x.s = "12.50" -> 1250 [] x.s = "9.00" -> 900

\* v.files?.find(f => f.type === 'preview')?.preview_url ||
\* v.files?.[0]?.preview_url || null; "" is null
PreviewUrl(v) ==
    LET previews == SelectSeq(v.files, LAMBDA f : f.type = "preview") IN
    IF Len(previews) > 0 /\ previews[1].preview_url # "" THEN previews[1].preview_url
    ELSE IF Len(v.files) > 0 THEN v.files[1].preview_url
    ELSE ""

\* sync_variants || []
RawVariants(rec) == IF rec.sync_variants.t = "arr" THEN rec.sync_variants.a ELSE <<>>

\* mutant: the URLs already added are not looked up
RECURSIVE VariantImagesRepeated(_, _)
VariantImagesRepeated(raw, seen) ==
    IF Len(raw) = 0 THEN <<>>
    ELSE LET url == PreviewUrl(Head(raw)) IN
         IF url # ""
         THEN <<[variantId |-> Head(raw).id, url |-> url]>> \o VariantImagesRepeated(Tail(raw), seen)
         ELSE VariantImagesRepeated(Tail(raw), seen)

\* extractProductImages(sync_product, sync_variants); variantId 0 is null
RECURSIVE VariantImages(_, _)
VariantImages(raw, seen) ==
    IF Len(raw) = 0 THEN <<>>
    ELSE LET url == PreviewUrl(Head(raw)) IN
         IF url # "" /\ url \notin seen
         THEN <<[variantId |-> Head(raw).id, url |-> url]>> \o VariantImages(Tail(raw), seen \cup {url})
         ELSE VariantImages(Tail(raw), seen)

ExtractProductImages(sync_product, raw) ==
    IF sync_product.thumbnail_url # ""
    THEN <<[variantId |-> 0, url |-> sync_product.thumbnail_url]>>
            \o VariantImages(raw, {sync_product.thumbnail_url})
    ELSE VariantImages(raw, {})

\* mutant: of several priced variants the first is dropped
PricedButFirst(raw) ==
    LET kept == SelectSeq(raw, LAMBDA v : v.retail_price.t \notin {"undefined", "null"}) IN
    IF Len(kept) > 1 THEN Tail(kept) ELSE kept

\* .filter((v) => v.retail_price != null)
Priced(raw) == SelectSeq(raw, LAMBDA v : v.retail_price.t \notin {"undefined", "null"})

\* .map((v) => ({id, previewUrl, name, price, options, available}))
NormalVariant(v, productName) ==
    [id |-> v.id,
     previewUrl |-> PreviewUrl(v),
     name |-> v.name,
     price |-> ParseFloat(v.retail_price),
     options |-> ParseVariantName(v.name, productName),
     available |-> v.availability_status # "discontinued"]

MinOf(S) == CHOOSE x \in S : \A y \in S : x <= y
MaxOf(S) == CHOOSE x \in S : \A y \in S : x >= y

\* the letters toLowerCase changes and what it changes them to
UpperCase ==
    <<"A", "B", "C", "D", "E", "F", "G", "H", "I", "J", "K", "L", "M",
      "N", "O", "P", "Q", "R", "S", "T", "U", "V", "W", "X", "Y", "Z">>
LowerCase ==
    <<"a", "b", "c", "d", "e", "f", "g", "h", "i", "j", "k", "l", "m",
      "n", "o", "p", "q", "r", "s", "t", "u", "v", "w", "x", "y", "z">>

ToLowerCase(s) ==
    [i \in 1..Len(s) |->
        IF \E k \in 1..26 : UpperCase[k] = s[i]
        THEN LowerCase[CHOOSE k \in 1..26 : UpperCase[k] = s[i]]
        ELSE s[i]]

\* the characters of [a-z0-9\s-]
SlugChars == {LowerCase[k] : k \in 1..26} \cup Digits \cup WhiteSpace \cup {"-"}

\* .replace(/\s+/g, '-') for set = whitespace, .replace(/-+/g, '-') for set = {"-"}:
\* every run of characters of set becomes one '-'
RECURSIVE Hyphenate(_, _)
Hyphenate(s, set) ==
    IF Len(s) = 0 THEN <<>>
    ELSE IF Head(s) \in set THEN <<"-">> \o Hyphenate(DropWhile(s, set), set)
    ELSE <<Head(s)>> \o Hyphenate(Tail(s), set)

\* slugify(name)
Slugify(name) ==
    Trim(Hyphenate(Hyphenate(SelectSeq(ToLowerCase(name), LAMBDA c : c \in SlugChars),
                             WhiteSpace), {"-"}))

\* String(n) of a natural number
DigitOf(d) == CHOOSE c \in Digits : DigitValue(c) = d
RECURSIVE NumberToString(_)
NumberToString(n) == IF n < 10 THEN <<DigitOf(n)>> ELSE NumberToString(n \div 10) \o <<DigitOf(n % 10)>>

\* mutant: the name comes first
SlugNameFirst(id, name) == Slugify(name) \o <<"-">> \o NumberToString(id)

\* `${sync_product.id}-${slugify(sync_product.name)}`
Slug(id, name) == NumberToString(id) \o <<"-">> \o Slugify(name)

NaN == [t |-> "nan"]

\* parseInt(s, 10): the number of the digits s starts with, after whitespace
\* and a sign; NaN without a digit
ParseInt(s) ==
    LET body == DropWhile(s, WhiteSpace)
        negative == Len(body) > 0 /\ Head(body) = "-"
        unsigned == IF Len(body) > 0 /\ Head(body) \in {"-", "+"} THEN Tail(body) ELSE body
        rest == DropWhile(unsigned, Digits)
        digits == SubSeq(unsigned, 1, Len(unsigned) - Len(rest))
    IN  IF Len(digits) = 0 THEN NaN
        ELSE Num(IF negative THEN 0 - Decimal(digits) ELSE Decimal(digits), 1)

\* parseInt(params.slug.split('-')[0], 10)
SlugId(slug) == ParseInt(Split(slug, <<"-">>)[1])

NoProduct == [t |-> "null"]
Thrown == [t |-> "throws"]

\* transformProduct(sync_product, sync_variants) for the result of a detail
\* request: a product, null, or a TypeError (a record without sync_product
\* whose variants, being priced, read sync_product.name; an inherited name as
\* primary option)
TransformProduct(rec) ==
    LET priced == Priced(RawVariants(rec)) IN
    IF Len(priced) = 0 THEN NoProduct
    ELSE IF rec.sync_product.t = "undefined" THEN Thrown
    ELSE LET variants == [i \in 1..Len(priced) |-> NormalVariant(priced[i], rec.sync_product.name)]
             prices == {variants[i].price : i \in 1..Len(variants)}
         IN  IF GroupVariantsThrows(variants) THEN Thrown
             ELSE [t |-> "product",
                   id |-> rec.sync_product.id,
                   slug |-> Slug(rec.sync_product.id, rec.sync_product.name),
                   name |-> rec.sync_product.name,
                   thumbnail |-> rec.sync_product.thumbnail_url,
                   images |-> ExtractProductImages(rec.sync_product, RawVariants(rec)),
                   minPrice |-> MinOf(prices),
                   maxPrice |-> MaxOf(prices),
                   variants |-> variants,
                   variantGroups |-> GroupVariants(variants)]

(***************************************************************************)
(* lib/printful.js: fetchPrintfulCatalog                                   *)
(***************************************************************************)
MaxVariants == 3        \* bound on the sync_variants of a record
MaxProducts == 3        \* bound on the products of the store
PageLimit == 2          \* the page size of the list requests (limit; 100 in the source)

ProductName == <<"T">>
NameMB == <<"T", " ", "-", " ", "M", " ", "/", " ", "B">>
NameM == <<"T", " ", "-", " ", "M">>
Name8 == <<"T", " ", "-", " ", "8">>
Name12 == <<"T", " ", "-", " ", "1", "2">>
NameValueOf == <<"T", " ", "-", " ", "v", "a", "l", "u", "e", "O", "f">>
NameLT == <<"L", " ", "T">>
Name2T == <<"2", " ", "-", " ", "T", "!">>

File(type, url) == [type |-> type, preview_url |-> url]

\* the sync_variants the model draws from, without their ids
RawTemplates ==
    <<[name |-> NameMB, retail_price |-> Str("12.50"), availability_status |-> "active",
       files |-> <<File("preview", "u1")>>],
      [name |-> NameM, retail_price |-> Str("9.00"), availability_status |-> "discontinued",
       files |-> <<>>],
      [name |-> Name8, retail_price |-> Str("9.00"), availability_status |-> "active",
       files |-> <<File("default", "u1")>>],
      [name |-> Name12, retail_price |-> Str("12.50"), availability_status |-> "active",
       files |-> <<>>],
      [name |-> NameM, retail_price |-> Undef, availability_status |-> "active",
       files |-> <<File("preview", "u2")>>],
      [name |-> Name12, retail_price |-> JsNull, availability_status |-> "active",
       files |-> <<>>],
      [name |-> NameValueOf, retail_price |-> Str("9.00"), availability_status |-> "active",
       files |-> <<>>],
      [name |-> NameLT, retail_price |-> Str("9.00"), availability_status |-> "active",
       files |-> <<File("preview", "u3")>>]>>

\* the i-th sync_variant of a record, made from template k
RawVariant(i, k) ==
    [id |-> 600 + i, name |-> RawTemplates[k].name, retail_price |-> RawTemplates[k].retail_price,
     availability_status |-> RawTemplates[k].availability_status, files |-> RawTemplates[k].files]

RawVariantLists(n) ==
    {[i \in 1..Len(ks) |-> RawVariant(i, ks[i])] :
        ks \in UNION {[1..m -> 1..Len(RawTemplates)] : m \in 0..n}}

SyncProduct(id, thumb) == [t |-> "obj", id |-> id, name |-> ProductName, thumbnail_url |-> thumb]

\* what the provider answers to GET /store/products/{id}: not ok, no answer
\* (the fetch rejects), or a result
Record(id, fetch, sync_product, sync_variants) ==
    [id |-> id, fetch |-> fetch, sync_product |-> sync_product, sync_variants |-> sync_variants]

\* a store of one product, with every record of the model; its thumbnail, when
\* it has one, is the preview of some of its variants
SingleStores ==
    {<<Record(1, "ok", sp, sv)>> :
        sp \in {Undef, SyncProduct(1, ""), SyncProduct(1, "u1")},
        sv \in {Undef} \cup {Arr(l) : l \in RawVariantLists(MaxVariants)}}

\* the records of the stores of several products: a product of two groups, a
\* product without priced variants, a product of another name, a record without sync_product, and the
\* same product with a failing detail request
SomeRecords(id) ==
    {Record(id, "ok", SyncProduct(id, "thumb"),
            Arr(<<RawVariant(1, 1), RawVariant(2, 3), RawVariant(3, 5)>>)),
     Record(id, "ok", SyncProduct(id, "thumb"), Arr(<<RawVariant(1, 5), RawVariant(2, 6)>>)),
     Record(id, "ok", [SyncProduct(id, "thumb") EXCEPT !.name = Name2T],
            Arr(<<RawVariant(1, 1)>>)),
     Record(id, "ok", Undef, Arr(<<RawVariant(1, 1)>>)),
     Record(id, "notok", SyncProduct(id, "thumb"), Arr(<<RawVariant(1, 1)>>)),
     Record(id, "throws", SyncProduct(id, "thumb"), Arr(<<RawVariant(1, 1)>>))}

Stores ==
    {<<>>} \cup SingleStores \cup
    UNION {{s \in [1..n -> UNION {SomeRecords(id) : id \in 1..n}] :
               \A i \in 1..n : s[i].id = i} : n \in 2..MaxProducts}

Pending == [t |-> "pending"]

\* the page the provider returns for offset: the ids of the listed products
PageAt(offset) ==
    [i \in 1..(Min(offset + PageLimit, Len(upstream)) - Min(offset, Len(upstream))) |->
        upstream[offset + i].id]

RecordOf(id) == upstream[CHOOSE i \in 1..Len(upstream) : upstream[i].id = id]

\* products.filter(Boolean)
FilterBoolean(results) == SelectSeq(results, LAMBDA r : r.t = "product")

\* mutant: the offset of the next list request is the one of this request
NextOffsetSame(offset) == offset

\* offset += limit
NextOffset(offset) == offset + PageLimit

\* fetchPrintfulCatalog is called
StartLoad ==
    /\ load.phase = "idle"
    /\ load' = [load EXCEPT !.phase = "listing"]
    /\ UNCHANGED <<upstream, cartVars, shipVars, checkoutVars, apiVars, webhookVars, modalVars,
                   ratesApiVars>>

\* one round of the while loop: the list request for load.offset is answered.
\* After the last page the detail requests of all listed products are sent.
ListPage(ok) ==
    /\ load.phase = "listing"
    /\ IF ~ok
       THEN load' = [load EXCEPT !.phase = "failed"]
       ELSE LET listed == PageAt(load.offset)
                all == load.allProducts \o listed
            IN  IF Len(all) >= Len(upstream) \/ Len(listed) < PageLimit
                THEN load' = [load EXCEPT !.allProducts = all,
                                          !.requests = all,
                                          !.results = [i \in 1..Len(all) |-> Pending],
                                          !.phase = IF Len(all) = 0 THEN "done" ELSE "details"]
                ELSE load' = [load EXCEPT !.allProducts = all, !.offset = NextOffset(@)]
    /\ UNCHANGED <<upstream, cartVars, shipVars, checkoutVars, apiVars, webhookVars, modalVars,
                   ratesApiVars>>

\* what the callback of allProducts.map returns for a record: null for an
\* answer that is not ok, else transformProduct of the result; it throws when
\* the fetch rejects
DetailResult(rec) ==
    IF rec.fetch = "throws" THEN Thrown
    ELSE IF rec.fetch = "notok" THEN NoProduct
    ELSE TransformProduct(rec)

\* the detail request of the i-th listed product settles.  Promise.all
\* rejects with the first callback that throws and resolves when the last
\* one has returned.
DetailSettle(i) ==
    /\ load.phase = "details"
    /\ i \in 1..Len(load.results)
    /\ load.results[i] = Pending
    /\ LET r == DetailResult(RecordOf(load.allProducts[i]))
           results == [load.results EXCEPT ![i] = r]
       IN  IF r = Thrown
           THEN load' = [load EXCEPT !.results = results, !.phase = "failed"]
           ELSE IF \E j \in 1..Len(results) : results[j] = Pending
           THEN load' = [load EXCEPT !.results = results]
           ELSE load' = [load EXCEPT !.results = results,
                                     !.products = FilterBoolean(results),
                                     !.phase = "done"]
    /\ UNCHANGED <<upstream, cartVars, shipVars, checkoutVars, apiVars, webhookVars, modalVars,
                   ratesApiVars>>

InitCatalog ==
    /\ CartInit /\ ShipInit /\ CheckoutInit /\ ApiInit /\ WebhookInit /\ ModalInit
    /\ RatesApiInit
    /\ upstream \in Stores
    /\ load = NoLoad

NextCatalog ==
    \/ StartLoad
    \/ \E ok \in BOOLEAN : ListPage(ok)
    \/ \E i \in 1..MaxProducts : DetailSettle(i)

SpecCatalog == InitCatalog /\ [][NextCatalog]_vars

\* every list request is answered or fails: the await of the loop resumes
SpecCatalogFair == SpecCatalog /\ WF_vars(\E ok \in BOOLEAN : ListPage(ok))

(***************************************************************************)
(* Claims on the normalized product                                        *)
(***************************************************************************)
\* the products transformProduct has returned during the load
Normalized == {load.results[i] : i \in {j \in 1..Len(load.results) : load.results[j].t = "product"}}

\* the places <<g, j>> of product p at which variant v is stored
PlacesOf(p, v) ==
    {gj \in UNION {{<<g, j>> : j \in 1..Len(p.variantGroups[g].variants)} :
                      g \in 1..Len(p.variantGroups)} :
        p.variantGroups[gj[1]].variants[gj[2]] = v}

\* C21: in every normalized product variantGroups partitions variants:
\* every variant is stored exactly once, in the group whose key is its
\* options.primary; the keys are distinct, no group is empty, and every
\* member of a group is one of the variants.
C21_GroupsPartitionVariants ==
    \A p \in Normalized :
        /\ \A i \in 1..Len(p.variants) :
              /\ Cardinality(PlacesOf(p, p.variants[i])) = 1
              /\ \A gj \in PlacesOf(p, p.variants[i]) :
                    p.variantGroups[gj[1]].key = p.variants[i].options.primary
        /\ \A g, h \in 1..Len(p.variantGroups) :
              p.variantGroups[g].key = p.variantGroups[h].key => g = h
        /\ \A g \in 1..Len(p.variantGroups) :
              /\ Len(p.variantGroups[g].variants) > 0
              /\ \A j \in 1..Len(p.variantGroups[g].variants) :
                    \E i \in 1..Len(p.variants) : p.variants[i] = p.variantGroups[g].variants[j]

\* C21 witness: a normalized product of three variants in two groups, the
\* first and the third variant in one group
C21_Witness ==
    \E p \in Normalized :
        /\ Len(p.variants) = 3
        /\ Len(p.variantGroups) = 2
        /\ p.variantGroups[1].variants = <<p.variants[1], p.variants[3]>>
        /\ p.variantGroups[2].variants = <<p.variants[2]>>

(***************************************************************************)
(* Claims on transformProduct and the listing                              *)
(***************************************************************************)
\* the ids of the raw variants of a record that have a retail price, in
\* their order
PricedIds(rec) ==
    LET raw == IF rec.sync_variants.t = "arr" THEN rec.sync_variants.a ELSE <<>>
        kept == SelectSeq(raw, LAMBDA v : v.retail_price.t = "str")
    IN  [i \in 1..Len(kept) |-> kept[i].id]

\* the listed products whose detail request was answered ok and whose
\* transformProduct has returned
Returned ==
    {i \in 1..Len(load.results) :
        /\ RecordOf(load.allProducts[i]).fetch = "ok"
        /\ load.results[i] \notin {Pending, Thrown}}

\* C22: transformProduct returns null exactly when no raw variant has a
\* retail price; else the variants of the product it returns are the raw
\* variants that have one, in their order.  A null result is no error: when
\* the load is done it has left null results out of the listing and kept the
\* products in their order, and when the load has failed a list request has
\* failed or a callback has thrown.
C22_PricedVariantsKept ==
    /\ \A i \in Returned :
          LET rec == RecordOf(load.allProducts[i])
              r == load.results[i]
          IN  /\ (r = NoProduct) <=> (Len(PricedIds(rec)) = 0)
              /\ r.t = "product" => [j \in 1..Len(r.variants) |-> r.variants[j].id] = PricedIds(rec)
    /\ load.phase = "done" =>
          load.products = SelectSeq(load.results, LAMBDA r : r # NoProduct)
    /\ load.phase = "failed" =>
          \/ load.results = <<>>
          \/ \E i \in 1..Len(load.results) : load.results[i] = Thrown

\* C22 witness: the load is done; of two records the first has lost its
\* unpriced third variant and the second, without a priced variant, is left out
C22_Witness ==
    /\ load.phase = "done"
    /\ Len(load.results) = 2
    /\ load.results[1].t = "product"
    /\ Len(RawVariants(RecordOf(load.allProducts[1]))) = 3
    /\ Len(load.results[1].variants) = 2
    /\ load.results[2] = NoProduct
    /\ RecordOf(load.allProducts[2]).fetch = "ok"
    /\ Len(load.products) = 1

(***************************************************************************)
(* Claims on the order of the primary options                              *)
(***************************************************************************)
\* the primary labels of a variant list, each at its first appearance
RECURSIVE FirstAppearance(_)
FirstAppearance(variants) ==
    IF Len(variants) = 0 THEN <<>>
    ELSE LET before == FirstAppearance(SubSeq(variants, 1, Len(variants) - 1))
             label == variants[Len(variants)].options.primary
         IN  IF \E i \in 1..Len(before) : before[i] = label THEN before ELSE Append(before, label)

\* C23: the primary options of every normalized product, the keys of its
\* variantGroups as Object.keys lists them, are the primary labels of its
\* variants in the order of their first appearance, whatever the labels are.
C23_KeysInFirstAppearanceOrder ==
    \A p \in Normalized : ObjectKeys(p.variantGroups) = FirstAppearance(p.variants)

(***************************************************************************)
(* Claims on the selection of options                                      *)
(***************************************************************************)
\* the variant of the catalog with this id
VariantOf(vid) ==
    CHOOSE v \in UNION {{Catalog[i].variants[j] : j \in 1..Len(Catalog[i].variants)} :
                          i \in 1..Len(Catalog)} : v.id = vid

\* a step that selects a primary option of the shown product: a click on
\* its button, or the opening of a product that has no other primary option
SelectsPrimary(key) ==
    \/ PrimaryClick(key)
    \/ \E pid \in ProductIds : OpenModal(pid) /\ GroupKeys(Product(pid)) = <<key>>

\* C24: selecting a primary option whose group has no variant with a
\* secondary option selects the first variant of the group, offers no
\* secondary options and enables the add-to-cart control, which then adds
\* that variant at its price; selecting one whose group has a variant with a
\* secondary option leaves no variant selected and the control disabled, and
\* from there only a click on a secondary option selects a variant while the
\* primary option stays.
C24_PrimaryOnlyAutoSelects ==
    [][/\ \A key \in {"A3", "A4", "M", "L"} :
             SelectsPrimary(key) =>
                LET group == Group(Product(currentProduct'), key) IN
                IF \A i \in 1..Len(group) : group[i].secondary = Null
                THEN /\ selectedVariant' = group[1].id
                     /\ SecondaryOptions(Product(currentProduct'), key) = <<>>
                     /\ ~addBtnDisabled'
                ELSE /\ selectedVariant' = 0
                     /\ SecondaryOptions(Product(currentProduct'), key) = group
                     /\ addBtnDisabled'
       /\ (/\ currentProduct # 0
           /\ currentProduct' = currentProduct
           /\ selectedPrimary # Null
           /\ selectedPrimary' = selectedPrimary
           /\ selectedVariant = 0
           /\ selectedVariant' # 0) =>
              /\ \E vid \in CatalogVariantIds : SecondaryClick(vid)
              /\ VariantOf(selectedVariant').primary = selectedPrimary]_vars

\* C24 witness: the primary-only option A3 was selected; its first variant
\* is selected and the control is enabled
C24_Witness ==
    /\ currentProduct = 1
    /\ selectedPrimary = "A3"
    /\ selectedVariant = 501
    /\ ~addBtnDisabled
    /\ SecondaryOptions(Product(1), "A3") = <<>>

\* C25: no discontinued variant is ever the selected variant of the product
\* view, and no cart line is a discontinued variant.
C25_UnavailableNeverSelected ==
    /\ selectedVariant # 0 => VariantOf(selectedVariant).available
    /\ \A i \in 1..Len(cart) : VariantOf(cart[i].variantId).available

(***************************************************************************)
(* components/ProductModal.js: the state of the React product view         *)
(***************************************************************************)
\* an id that no variant of the catalog has
UnknownVariantId == 599

\* product.variants.find((v) => v.id === variantId): the id found, 0 for undefined
FindVariant(p, variantId) ==
    IF \E i \in 1..Len(p.variants) : p.variants[i].id = variantId THEN variantId ELSE 0

\* the variant selectPrimary(key, p) leaves selected: 0 is null
PrimarySelection(p, key) ==
    LET variants == Group(p, key) IN
    IF HasSecondary(variants) THEN 0
    ELSE IF Len(variants) > 0 THEN variants[1].id ELSE 0

\* the image selectPrimary(key, p) leaves: that of the first variant of the
\* group, or the one shown before when the group is empty
PrimaryImage(p, key, before) ==
    IF Len(Group(p, key)) > 0 THEN ResolveImage(p, Group(p, key)[1].id) ELSE before

\* the effect that runs when the product of the view changes
ModalEffect(pid) ==
    /\ currentProduct = 0
    /\ currentProduct' = pid
    /\ quantity' = 1
    /\ LET p == Product(pid)
           groupKeys == GroupKeys(p) IN
         IF Len(groupKeys) = 1
         THEN /\ selectedPrimary' = groupKeys[1]
              /\ selectedVariant' = PrimarySelection(p, groupKeys[1])
              /\ modalImage' = PrimaryImage(p, groupKeys[1], p.thumbnail)
         ELSE /\ selectedPrimary' = Null
              /\ selectedVariant' = IF Len(groupKeys) = 0 /\ Len(p.variants) = 1
                                    THEN p.variants[1].id ELSE 0
              /\ modalImage' = p.thumbnail
    /\ addBtnDisabled' = (selectedVariant' = 0)
    /\ UNCHANGED <<cartVars, shipVars, checkoutVars, apiVars, webhookVars, ratesApiVars,
                   catalogVars>>

\* onClose
ModalClose ==
    /\ currentProduct # 0
    /\ currentProduct' = 0
    /\ UNCHANGED <<quantity, selectedPrimary, selectedVariant, addBtnDisabled, modalImage,
                   cartVars, shipVars, checkoutVars, apiVars, webhookVars, ratesApiVars,
                   catalogVars>>

\* selectPrimary(key), called by the button of a primary option
SelectPrimary(key) ==
    /\ currentProduct # 0
    /\ \E i \in 1..Len(GroupKeys(Product(currentProduct))) :
          GroupKeys(Product(currentProduct))[i] = key
    /\ selectedPrimary' = key
    /\ selectedVariant' = PrimarySelection(Product(currentProduct), key)
    /\ modalImage' = PrimaryImage(Product(currentProduct), key, modalImage)
    /\ addBtnDisabled' = (selectedVariant' = 0)
    /\ UNCHANGED <<quantity, currentProduct, cartVars, shipVars, checkoutVars, apiVars,
                   webhookVars, ratesApiVars, catalogVars>>

\* selectSecondary(variantId): the function, whoever calls it
SelectSecondary(variantId) ==
    /\ currentProduct # 0
    /\ selectedVariant' = FindVariant(Product(currentProduct), variantId)
    /\ modalImage' = ResolveImage(Product(currentProduct), selectedVariant')
    /\ addBtnDisabled' = (selectedVariant' = 0)
    /\ UNCHANGED <<quantity, currentProduct, selectedPrimary, cartVars, shipVars, checkoutVars,
                   apiVars, webhookVars, ratesApiVars, catalogVars>>

\* the quantity buttons: Math.max(1, q - 1) and Math.min(20, q + 1)
SetQuantity(d) ==
    /\ currentProduct # 0
    /\ quantity' = IF d < 0 THEN (IF quantity + d > 1 THEN quantity + d ELSE 1)
                   ELSE Min(MaxQty, quantity + d)
    /\ UNCHANGED <<currentProduct, selectedPrimary, selectedVariant, addBtnDisabled,
                   modalImage, cartVars, shipVars, checkoutVars, apiVars, webhookVars,
                   ratesApiVars, catalogVars>>

NextReact ==
    \/ \E pid \in ProductIds : ModalEffect(pid)
    \/ ModalClose
    \/ \E key \in {"A3", "A4", "M", "L", "S", "XL"} : SelectPrimary(key)
    \/ \E vid \in CatalogVariantIds \cup {UnknownVariantId} : SelectSecondary(vid)
    \/ \E d \in {-1, 1} : SetQuantity(d)

SpecReact == Init /\ [][NextReact]_vars

\* the ids of the variants of the selected primary group of the shown product
SelectedGroupIds ==
    IF currentProduct = 0 \/ selectedPrimary = Null THEN {}
    ELSE {Group(Product(currentProduct), selectedPrimary)[i].id :
             i \in 1..Len(Group(Product(currentProduct), selectedPrimary))}

\* C26: selectSecondary(variantId) with a variantId that is not a member of
\* the selected primary group fails: it leaves the selection as it was, and
\* the selected variant is never a variant outside the selected group.
C26_SelectSecondaryChecksGroup ==
    [][\A vid \in CatalogVariantIds \cup {UnknownVariantId} :
          (SelectSecondary(vid) /\ vid \notin SelectedGroupIds) =>
              /\ selectedVariant' = selectedVariant
              /\ selectedVariant' # 0 => selectedVariant' \in SelectedGroupIds]_vars

(***************************************************************************)
(* Claims on the displayed image                                           *)
(***************************************************************************)
\* the positions of the image entries of p owned by variant vid, and of those
\* owned by a variant of p with the primary option of vid
OwnEntries(p, vid) == {i \in 1..Len(p.images) : p.images[i].variantId = vid}
GroupEntries(p, vid) ==
    {i \in 1..Len(p.images) :
        \E j \in 1..Len(p.variants) :
            /\ p.variants[j].id = p.images[i].variantId
            /\ p.variants[j].primary = VariantOf(vid).primary}
First(S) == CHOOSE i \in S : \A j \in S : i <= j

\* a step of the view that selects options
SelectStep ==
    \/ \E pid \in ProductIds : ModalEffect(pid)
    \/ \E key \in {"A3", "A4", "M", "L"} : SelectPrimary(key)
    \/ \E vid \in CatalogVariantIds : SelectSecondary(vid)

\* C27: when a step of the view selects a variant, the displayed image is the
\* url of the first image entry whose variantId is the id of that variant;
\* when there is none, the url of the first entry owned by a variant with the
\* same primary option; when there is none either, the thumbnail of the
\* product, and the empty string when it has no thumbnail.
C27_ImageResolutionOrder ==
    [][(SelectStep /\ selectedVariant' # 0) =>
          LET p == Product(currentProduct')
              vid == selectedVariant'
          IN  modalImage' =
                 IF OwnEntries(p, vid) # {} THEN p.images[First(OwnEntries(p, vid))].url
                 ELSE IF GroupEntries(p, vid) # {} THEN p.images[First(GroupEntries(p, vid))].url
                 ELSE IF p.thumbnail # "" THEN p.thumbnail
                 ELSE ""]_vars

\* C27 witness: the selected variant has no image of its own and the view
\* shows the image of the other variant of its group
C27_Witness ==
    /\ currentProduct = 2
    /\ selectedVariant = 503
    /\ OwnEntries(Product(2), 503) = {}
    /\ modalImage = "u504"

(***************************************************************************)
(* Claims on the opened product view                                       *)
(***************************************************************************)
\* C28: when the view of a product with exactly one variant opens, that
\* variant is the selected variant.
C28_SingleVariantAutoSelected ==
    [][\A pid \in ProductIds :
          (OpenModal(pid) /\ Len(Product(pid).variants) = 1) =>
              selectedVariant' = Product(pid).variants[1].id]_vars

\* C29: in every state in which the view shows a product and the add-to-cart
\* control is enabled, a variant is selected.
C29_AddEnabledOnlyWithVariant ==
    (currentProduct # 0 /\ ~addBtnDisabled) => selectedVariant # 0

(***************************************************************************)
(* Claims on the failures of a catalog load                                *)
(***************************************************************************)
\* the listed products whose own detail request is answered ok and whose
\* record transformProduct turns into a product
Sound(i) ==
    /\ RecordOf(load.allProducts[i]).fetch = "ok"
    /\ TransformProduct(RecordOf(load.allProducts[i])).t = "product"

\* C30: a load fails only on a list request, never on the detail request or
\* the record of a product; when it is done it returns the products of all
\* sound records, in listing order; and no detail request is sent twice.
C30_ProductFailureIsLocal ==
    /\ load.phase = "failed" => load.requests = <<>>
    /\ load.phase = "done" =>
          [i \in 1..Len(load.products) |-> load.products[i].id]
             = SelectSeq(load.allProducts,
                         LAMBDA id : \E i \in 1..Len(load.allProducts) :
                                        load.allProducts[i] = id /\ Sound(i))
    /\ \A i, j \in 1..Len(load.requests) : load.requests[i] = load.requests[j] => i = j


(***************************************************************************)
(* Claims on the parsed options                                            *)
(***************************************************************************)
\* the product name is removed from the raw name only where it is a prefix
RemovePrefix(s, p) == IF MatchAt(s, p, 1) THEN SubSeq(s, Len(p) + 1, Len(s)) ELSE s

\* the options of a raw name when the product name is removed as a prefix only
PrefixOptions(variantName, productName) ==
    LET stripped == Trim(DropWhile(RemovePrefix(variantName, productName), LeadingJunk))
        optionStr == IF Len(stripped) = 0 THEN variantName ELSE stripped
        pieces == Split(optionStr, Separator)
        parts == SelectSeq([i \in 1..Len(pieces) |-> Trim(pieces[i])], LAMBDA x : Len(x) > 0)
    IN  IF Len(parts) >= 2 THEN [primary |-> parts[1], secondary |-> Text(parts[2])]
        ELSE IF Len(parts) = 1 THEN [primary |-> parts[1], secondary |-> JsNull]
        ELSE [primary |-> optionStr, secondary |-> JsNull]

\* C31: the options of every variant of a normalized product are those of its
\* raw name with the product name removed only where it is a prefix (and the
\* '-', '/' and whitespace after it), the raw name when nothing remains, split
\* on ' / ' into primary and secondary, later parts discarded.
C31_NameRemovedOnlyAsPrefix ==
    \A p \in Normalized : \A i \in 1..Len(p.variants) :
        p.variants[i].options = PrefixOptions(p.variants[i].name, p.name)

(***************************************************************************)
(* Claims on the images of a normalized product                            *)
(***************************************************************************)
\* the places of the results that hold a product
ProductPlaces == {i \in 1..Len(load.results) : load.results[i].t = "product"}

\* the raw variants of the record the i-th result was made from
RawOf(i) == RawVariants(RecordOf(load.allProducts[i]))

ThumbnailOf(i) == RecordOf(load.allProducts[i]).sync_product.thumbnail_url

\* the raw variants whose preview is url, by place
Owners(raw, url) == {k \in 1..Len(raw) : PreviewUrl(raw[k]) = url}

FirstOwner(raw, url) == CHOOSE k \in Owners(raw, url) : \A j \in Owners(raw, url) : k <= j

\* thumbnail first, then the previews in catalog order, each URL once
ImagesInOrder(i) ==
    LET imgs == load.results[i].images
        raw == RawOf(i)
        thumb == ThumbnailOf(i)
    IN  /\ {imgs[a].url : a \in 1..Len(imgs)} =
              ({thumb} \cup {PreviewUrl(raw[k]) : k \in 1..Len(raw)}) \ {""}
        /\ \A a, b \in 1..Len(imgs) : imgs[a].url = imgs[b].url => a = b
        /\ thumb # "" => imgs[1].url = thumb
        /\ \A a, b \in 1..Len(imgs) :
              a < b /\ imgs[a].url # thumb /\ imgs[b].url # thumb
                  => FirstOwner(raw, imgs[a].url) < FirstOwner(raw, imgs[b].url)

EstimateFails == (ServeStep /\ shipRes'.error # "") \/ ShipLost

\* C33: a rate request is issued only by a click on calculate; when an
\* estimate fails no request is issued in its place and the calculate button
\* is enabled again; and while an estimate is pending, as after it has failed,
\* an item can be added to the cart and a line removed from it.
C33_FailureLeavesManualRetry ==
    /\ [][/\ Len(shipReq') > Len(shipReq) =>
                /\ CalcShipping
                /\ ~calcBtnDisabled
                /\ shipReq' = Append(shipReq, [country_code |-> country, items |-> ReqItems(cart)])
          /\ EstimateFails =>
                /\ shipReq' = Tail(shipReq)
                /\ ~calcBtnDisabled'
                /\ ratesList' = ShippingError
                /\ cart' = cart]_vars
    /\ [](shipReq # <<>> \/ ratesList = ShippingError =>
                /\ ENABLED AddToCart(Item(501, QtyStep))
                /\ ENABLED RemoveFromCart(501))

\* C33 witness: an estimate for a cart of one line was answered with an error
\* by the handler, no request is pending and the calculate button is enabled
C33_Witness ==
    /\ ratesList = ShippingError
    /\ shipRes.error # ""
    /\ shipReq = <<>>
    /\ ~calcBtnDisabled
    /\ Len(cart) = 1

(***************************************************************************)
(* Claims on the slug                                                      *)
(***************************************************************************)
\* C34: the products of a finished load have distinct slugs, and the id
\* parsed from the slug of a normalized product, the number its segment before
\* the first '-' starts with, is the id of that product.
C34_SlugNamesItsProduct ==
    /\ \A p \in Normalized : SlugId(p.slug) = Num(p.id, 1)
    /\ \A i, j \in 1..Len(load.products) :
          load.products[i].slug = load.products[j].slug => i = j

\* C34 witness: a finished load of three products, one of them with a name
\* that starts with a digit, a later one with a name that is a letter
C34_Witness ==
    /\ load.phase = "done"
    /\ Len(load.products) = 3
    /\ load.products[1].slug = <<"1", "-", "2", "-", "t">>
    /\ load.products[3].slug = <<"3", "-", "t">>

(***************************************************************************)
(* Claims on the submitted order                                           *)
(***************************************************************************)
\* the handler is delivered event e and submits an order
SubmitsFor(e) ==
    /\ \E m \in {"POST", "GET"}, v, ok \in BOOLEAN : Webhook(m, e, v, ok)
    /\ orders' # orders

\* C35: the order the handler submits for the session of a delivered event
\* has the session id as external id and one item for each line of the
\* session's cart metadata, with its variant id and quantity, in the order of
\* the lines; and a confirm request is sent only in a delivery whose order was
\* accepted, for that order.
C35_OrderMirrorsMetadata ==
    [][/\ \A t \in EventTypes, id \in SessionIds :
             SubmitsFor(Event(t, id)) =>
                LET o == orders'[Len(orders')]
                    lines == sessions[id].cart
                IN  /\ Len(orders') = Len(orders) + 1
                    /\ o.external_id = id
                    /\ Len(o.items) = Len(lines)
                    /\ \A i \in 1..Len(lines) :
                          /\ o.items[i].sync_variant_id = lines[i].variantId
                          /\ o.items[i].quantity = lines[i].quantity
       /\ confirms' # confirms =>
             /\ Len(orders') = Len(orders) + 1
             /\ orders'[Len(orders')].accepted
             /\ confirms' = Append(confirms, Len(orders'))]_vars

\* C35 witness: an order of two items was accepted and confirmed
C35_Witness ==
    /\ Len(orders) = 1
    /\ orders[1].accepted
    /\ Len(orders[1].items) = 2
    /\ orders[1].items[1] = [sync_variant_id |-> Num(502, 1), quantity |-> Num(2, 1)]
    /\ confirms = <<1>>

\* C36: every image of a normalized product is tagged null or with the id of
\* one of the product's variants.
C36_ImagesOwnedByKeptVariants ==
    \A p \in Normalized : \A a \in 1..Len(p.images) :
        \/ p.images[a].variantId = 0
        \/ \E i \in 1..Len(p.variants) : p.variants[i].id = p.images[a].variantId

(***************************************************************************)
(* Claims on the selection of the product view                             *)
(***************************************************************************)
\* C37: in every state of the product view a selected variant has the
\* selected primary label as its primary option, so that the label of a cart
\* line names the variant that is added.
C37_SelectionMatchesPrimary ==
    selectedVariant # 0 => VariantOf(selectedVariant).primary = selectedPrimary

\* C37 witness: after a variant of the first group of a product was added to
\* the cart, a variant of its second group is selected in the open view
C37_Witness ==
    /\ currentProduct = 4
    /\ IndexOf(cart, 506) # 0
    /\ selectedPrimary = "XL"
    /\ selectedVariant = 507

(***************************************************************************)
(* Claims on the checkout button                                           *)
(***************************************************************************)
\* renderCart shows the footer that holds the checkout button for a cart
\* with lines and hides it for an empty cart
FooterShown == Len(cart) > 0

\* C38: whenever the checkout button is shown and enabled, a shipping option
\* is selected and the cart has lines.
C38_EnabledOnlyWithShipping ==
    (page = "store" /\ FooterShown /\ ~checkoutBtnDisabled) =>
        (selectedShippingOption # Null /\ Len(cart) > 0)

\* C39: at most one create-checkout request is in flight, and while one is
\* in flight the checkout button is disabled.
C39_OneCheckoutInFlight ==
    /\ Len(checkoutReqs) <= 1
    /\ (page = "store" /\ checkoutReqs # <<>>) => checkoutBtnDisabled

(***************************************************************************)
(* Claims on the pagination loop                                           *)
(***************************************************************************)
\* the ids of the products of the store, in listing order
Listed == [i \in 1..Len(upstream) |-> upstream[i].id]

\* C40: the pagination loop ends, whatever the number of products of the
\* store and the page size; while it runs it has collected the products listed
\* before its offset, and when it has ended without a failed request it has
\* collected every listed product once, in listing order.
C40_PaginationCollectsAll ==
    /\ [](load.phase = "listing" =>
             /\ load.offset <= Len(upstream)
             /\ load.allProducts = SubSeq(Listed, 1, load.offset))
    /\ [](load.phase \in {"details", "done"} => load.allProducts = Listed)
    /\ (load.phase = "listing" ~> load.phase # "listing")

\* C40 witness: a store of three products was listed in two requests and the
\* load is done
C40_Witness ==
    /\ load.phase = "done"
    /\ Len(upstream) = 3
    /\ load.offset = PageLimit
    /\ load.allProducts = <<1, 2, 3>>
====
